---- MODULE Spec2Model ----
(***************************************************************************)
(* Course lifecycle and content registry of the kore service               *)
(* (images/ananke-nbgrader/assets/kore).                                   *)
(*                                                                         *)
(* The registry store (misc/utils.py, read_autogenerated_config and        *)
(* write_autogenerated_config): the registry file is a sequence of text    *)
(* lines; every process that has the file open has its own file offset     *)
(* and its own userspace write buffer.                                     *)
(* The lifecycle requests (routes/courses_route.py, assignments_route.py): *)
(* every request runs in a process of its own, one external action or      *)
(* system call per step.                                                   *)
(***************************************************************************)
EXTENDS Integers, Sequences, FiniteSets, TLC

VARIABLES
    autogenerated_file,   \* the registry file: [exists, text, mode]
    lock,                 \* holder of the flock(LOCK_EX) on the file, or "free"
    pc,                   \* per process: position in the code
    op,                   \* per process: the operation it runs
    ret,                  \* per process: who called write_autogenerated_config
    save_arg,             \* per process: (services, roles, groups) of its last save
    config_code,          \* per process: local variable config_code
    pos,                  \* per process: offset of its open file
    buf,                  \* per process: data written but not yet flushed
    logged,               \* per process: last message handed to logging
    exc,                  \* per process: exception the operation ended with
    loaded,               \* per process: triple returned by the last load
    course_id,            \* per request: course of the requesting user
    registry,             \* per request: locals services, roles, groups
    response,             \* per request: message of the Response, "" while running
    ran,                  \* per request: the external actions run so far
    exchange,             \* courses with a directory /opt/nbgrader_exchange/<id>/
    accounts,             \* grader accounts that exist
    homes,                \* grader accounts with a directory /home/<grader>/
    course_titles,        \* keys of c.NbGrader.course_titles in nbgrader_config.py
    restarts,             \* requests that scheduled a restart of the hub
    students,             \* per course: students in the gradebook
    group_requests,       \* courses whose hub group was asked to drop its members
    gradebook_db,         \* courses with a file course_data/gradebook.db
    course_data,          \* per course: working directories in course_data/
    todo,                 \* per request: items its loop has not visited yet
    trees,                \* directory trees a copy-in made or may make
    owned,                \* trees whose owner is the grader account
    user_name,            \* per request: the user named in the request
    dst,                  \* per request: the destination it computed
    archive,              \* per tree below /var/lib/private/: its owner, or "absent"
    content,              \* the content kind a listing asks for
    info,                 \* per grader account: title_short of its info.json
    active_paths,         \* the list get_active_paths returned
    backed_up_paths,      \* the list get_backed_up_paths returned
    unique_names,         \* what generate_unique_names returned
    fs,                   \* the leaves of the file system a listing looks at
    list_groups,          \* the groups of the registry a listing was given
    resolved,             \* the resolvers a listing has called
    subset,               \* the subset a listing asks for
    list_response,        \* the Response get_list returned
    lti_state,            \* per request: the LTI claims of its user
    made,                 \* per request: what make_course_id returned
    nbgrader_config       \* the text of nbgrader_config.py, in tokens

storeVars == <<autogenerated_file, lock, pc, op, ret, save_arg, config_code,
               pos, buf, logged, exc, loaded>>

\* The store variables besides pc.
storeRest == <<autogenerated_file, lock, op, ret, save_arg, config_code, pos, buf,
               logged, exc, loaded>>

\* The course a request works on.
reqVars == <<course_id, todo>>

\* What Delete removes besides the registry entries.
delVars == <<exchange, accounts, homes, course_titles, restarts>>

\* The grading store and the hub groups.
gradeVars == <<students, group_requests, gradebook_db, course_data>>

\* The trees of the copy-in requests.
copyVars == <<trees, owned>>

\* Further locals of a request.
localVars == <<user_name, dst>>

\* Further state outside the requests.
\* The variables of a listing.
idVars == <<lti_state, made>>

auxVars == <<idVars, nbgrader_config>>

listVars == <<content, info, active_paths, backed_up_paths, unique_names, fs,
              list_groups, resolved, subset, list_response, auxVars>>

worldVars == <<archive, listVars>>

moreVars == <<localVars, worldVars>>

\* Everything a step of the registry store leaves alone.
lifeVars == <<reqVars, delVars, gradeVars, copyVars, moreVars>>

vars == <<storeVars, registry, response, ran, lifeVars>>

-----------------------------------------------------------------------------
(* Bounds *)

\* Largest number of services in a registry value that is saved.
MaxServices == 2

Procs == {"p1", "p2"}

Users == {"u1", "u2"}

CourseIds == {"c-1", "c-2"}

-----------------------------------------------------------------------------
(* Registry values *)

EmptyDict == [k \in {} |-> <<>>]

\* A Python literal as it appears in a line of the file.
Lit(name, services, dict) == [name |-> name, services |-> services, dict |-> dict]

NoLit == Lit("", <<>>, EmptyDict)

Registry(services, roles, groups) ==
    [services |-> services, roles |-> roles, groups |-> groups]

EmptyRegistry == Registry(<<>>, <<>>, EmptyDict)

GroupName(cid) == "formgrade-" \o cid

RoleName(cid) == "formgrader-" \o cid \o "-role"

ServiceRoleName == "formgrader-service-role"

\* All sequences over S of length at most n.
SeqUpTo(S, n) == UNION {[1..k -> S] : k \in 0..n}

\* The registry of the courses whose names are listed in ids: one service and
\* one group per course, one role per course and the shared service role.
RegistryOf(ids) ==
    Registry([i \in DOMAIN ids |-> [name |-> ids[i]]],
             [i \in DOMAIN ids |-> [name |-> RoleName(ids[i]), services |-> <<>>]]
                 \o (IF ids = <<>> THEN <<>>
                     ELSE <<[name |-> ServiceRoleName, services |-> ids]>>),
             [g \in {GroupName(ids[i]) : i \in DOMAIN ids} |-> <<"u1">>])

-----------------------------------------------------------------------------
(* The text of the registry file *)

Line(kind, lit) == [kind |-> kind, lit |-> lit]

Blank == Line("", NoLit)

\* A region of the file that was never written (a hole reads as NUL bytes).
Hole == Line("<NUL>", NoLit)

Header ==
    << Line("# Autogenerated nbgrader course configuration (DO NOT MODIFY)", NoLit),
       Blank,
       Line("c = get_config()", NoLit),
       Blank,
       Line("# Services", NoLit) >>

\* str(service), str(role), str(groups): the literal of the value.
LitOfService(service) == Lit(service.name, <<>>, EmptyDict)
LitOfRole(role) == Lit(role.name, role.services, EmptyDict)
LitOfGroups(groups) == Lit("", <<>>, groups)

\* The text composed by write_autogenerated_config.
Serialize(services, roles, groups) ==
    Header
    \o [i \in DOMAIN services |->
            Line("c.JupyterHub.services.append(", LitOfService(services[i]))]
    \o << Blank, Line("# Roles", NoLit) >>
    \o [i \in DOMAIN roles |->
            Line("c.JupyterHub.load_roles.append(", LitOfRole(roles[i]))]
    \o << Blank, Line("# Groups", NoLit),
          Line("c.JupyterHub.load_groups.update(", LitOfGroups(groups)) >>

SerializeRegistry(x) == Serialize(x.services, x.roles, x.groups)

\* The four str.replace calls of read_autogenerated_config, applied in the
\* order of the code to one piece of text (a line's code or a string inside
\* a literal: str.replace does not tell them apart).
ReplaceText(s) ==
    CASE s = "c = get_config()" -> ""
      [] s = "c.JupyterHub.services" -> "services"
      [] s = "c.JupyterHub.services.append(" -> "services.append("
      [] s = "c.JupyterHub.load_roles" -> "roles"
      [] s = "c.JupyterHub.load_roles.append(" -> "roles.append("
      [] s = "c.JupyterHub.load_groups" -> "groups"
      [] s = "c.JupyterHub.load_groups.update(" -> "groups.update("
      [] OTHER -> s

ReplaceDict(d) ==
    [k \in {ReplaceText(j) : j \in DOMAIN d} |->
        LET j == CHOOSE j \in DOMAIN d : ReplaceText(j) = k
        IN  [i \in DOMAIN d[j] |-> ReplaceText(d[j][i])]]

ReplaceLit(l) ==
    Lit(ReplaceText(l.name),
        [i \in DOMAIN l.services |-> ReplaceText(l.services[i])],
        ReplaceDict(l.dict))

ReplaceLine(l) == Line(ReplaceText(l.kind), ReplaceLit(l.lit))

\* dict.update
DictUpdate(d, e) ==
    [k \in DOMAIN d \cup DOMAIN e |-> IF k \in DOMAIN e THEN e[k] ELSE d[k]]

IsComment(kind) ==
    kind \in {"", "# Services", "# Roles", "# Groups",
              "# Autogenerated nbgrader course configuration (DO NOT MODIFY)"}

IsStatement(kind) ==
    kind \in {"services.append(", "roles.append(", "groups.update("}

\* exec of one line on the triple (services, roles, groups).
ExecLine(r, l) ==
    CASE l.kind = "services.append(" ->
            [r EXCEPT !.services = Append(@, [name |-> l.lit.name])]
      [] l.kind = "roles.append(" ->
            [r EXCEPT !.roles =
                Append(@, [name |-> l.lit.name, services |-> l.lit.services])]
      [] l.kind = "groups.update(" ->
            [r EXCEPT !.groups = DictUpdate(@, l.lit.dict)]
      [] OTHER -> r

RECURSIVE ExecLines(_, _)
ExecLines(r, text) ==
    IF text = <<>> THEN r
    ELSE ExecLines(ExecLine(r, Head(text)), Tail(text))

\* exec raises on a line that is neither a comment nor one of the three calls.
ExecRaises(text) ==
    \E i \in DOMAIN text : ~IsComment(text[i].kind) /\ ~IsStatement(text[i].kind)

\* Lines 157-166: rewrite the text, then execute it on three empty collections.
Rewrite(text) == [i \in DOMAIN text |-> ReplaceLine(text[i])]

Parse(text) == ExecLines(EmptyRegistry, Rewrite(text))

\* A syntactically complete registry: the text has the shape that
\* write_autogenerated_config composes.
IsCompleteUnit(text) ==
    \E s \in 0..Len(text) : \E r \in 0..Len(text) :
        /\ Len(text) = 10 + s + r
        /\ SubSeq(text, 1, 5) = Header
        /\ \A i \in 6..(5 + s) : text[i].kind = "c.JupyterHub.services.append("
        /\ text[6 + s] = Blank
        /\ text[7 + s] = Line("# Roles", NoLit)
        /\ \A i \in (8 + s)..(7 + s + r) : text[i].kind = "c.JupyterHub.load_roles.append("
        /\ text[8 + s + r] = Blank
        /\ text[9 + s + r] = Line("# Groups", NoLit)
        /\ text[10 + s + r].kind = "c.JupyterHub.load_groups.update("

-----------------------------------------------------------------------------
(* The registry file *)

Modes == {"644", "600", "400", "000"}

Readable(f) == f.mode # "000"

Writable(f) == f.mode \in {"644", "600"}

File(exists, text, mode) == [exists |-> exists, text |-> text, mode |-> mode]

NoFile == File(FALSE, <<>>, "000")

\* open(mode='w'): create the file, or truncate it to length zero.
OpenW(f) == File(TRUE, <<>>, IF f.exists THEN f.mode ELSE "644")

\* write(2) of data at offset at: the file grows as needed and a gap between
\* the old end of the file and the offset is a hole.
WriteAt(text, at, data) ==
    [i \in 1..(IF Len(text) > at + Len(data) THEN Len(text) ELSE at + Len(data)) |->
        IF i > at /\ i <= at + Len(data) THEN data[i - at]
        ELSE IF i <= Len(text) THEN text[i]
        ELSE Hole]

\* chmod 600
Chmod600(f) == [f EXCEPT !.mode = "600"]

-----------------------------------------------------------------------------
(* write_autogenerated_config and read_autogenerated_config, step by step *)

NoExc == "none"

\* The response of the framework to an exception that no handler of the
\* route catches.
Uncaught == "Internal Server Error"

\* One external action of a request and whether it succeeded.
Ran(act, ok) == [act |-> act, ok |-> ok]

\* The return of read_autogenerated_config with exception e, or with the
\* triple when e is none.  In DELETE (lines 228-231) the triple becomes the
\* locals services, roles, groups; AutogeneratedFileError is answered by the
\* route and any other exception is not caught.
ReadReturns(p, e, triple) ==
    /\ exc' = [exc EXCEPT ![p] = e]
    /\ loaded' = [loaded EXCEPT ![p] = IF e = NoExc THEN triple ELSE @]
    /\ IF op[p] = "delete"
       THEN IF e = NoExc
            THEN /\ pc' = [pc EXCEPT ![p] = "d_mutate"]
                 /\ registry' = [registry EXCEPT ![p] = triple]
                 /\ response' = response
            ELSE /\ pc' = [pc EXCEPT ![p] = "done"]
                 /\ registry' = registry
                 /\ response' = [response EXCEPT ![p] =
                       IF e = "AutogeneratedFileError" THEN e ELSE Uncaught]
       ELSE /\ pc' = [pc EXCEPT ![p] = "done"]
            /\ UNCHANGED <<registry, response>>

\* The return of write_autogenerated_config to its caller: the
\* FileNotFoundError handler of read_autogenerated_config (line 143), which
\* goes on with config_code = '' (line 144) and lets an
\* AutogeneratedFileError pass; DELETE (lines 258-261); or a plain save.
WriteReturns(p, e) ==
    IF ret[p] = "load"
    THEN IF e = NoExc
         THEN /\ pc' = [pc EXCEPT ![p] = "r_exec"]
              /\ config_code' = [config_code EXCEPT ![p] = <<>>]
              /\ UNCHANGED <<exc, loaded, registry, response>>
         ELSE /\ ReadReturns(p, e, EmptyRegistry)
              /\ config_code' = config_code
    ELSE /\ exc' = [exc EXCEPT ![p] = e]
         /\ UNCHANGED <<config_code, loaded, registry>>
         /\ IF op[p] = "delete"
            THEN IF e = NoExc
                 THEN /\ pc' = [pc EXCEPT ![p] = "d_rm_exchange"]
                      /\ response' = response
                 ELSE /\ pc' = [pc EXCEPT ![p] = "done"]
                      /\ response' = [response EXCEPT ![p] = e]
            ELSE /\ pc' = [pc EXCEPT ![p] = "done"]
                 /\ response' = response

\* A request calls write_autogenerated_config(path, x): lines 192-209 compose
\* the text.
StartSave(p, Inputs) ==
    /\ pc[p] = "idle"
    /\ \E x \in Inputs :
        /\ save_arg' = [save_arg EXCEPT ![p] = x]
        /\ config_code' = [config_code EXCEPT ![p] = SerializeRegistry(x)]
    /\ op' = [op EXCEPT ![p] = "save"]
    /\ ret' = [ret EXCEPT ![p] = "top"]
    /\ pc' = [pc EXCEPT ![p] = "w_open"]
    /\ logged' = [logged EXCEPT ![p] = "Writing autogenerated service configuration."]
    /\ UNCHANGED <<autogenerated_file, lock, pos, buf, exc, loaded, registry,
                   response, ran, lifeVars>>

\* Line 213: open(mode='w').  A PermissionError is caught at line 221, logged,
\* and the function returns normally.
WOpen(p) ==
    /\ pc[p] = "w_open"
    /\ IF autogenerated_file.exists /\ ~Writable(autogenerated_file)
       THEN /\ logged' = [logged EXCEPT ![p] = "Autogenerated services files not readable!"]
            /\ WriteReturns(p, NoExc)
            /\ UNCHANGED <<autogenerated_file, pos, buf, ran>>
       ELSE /\ autogenerated_file' = OpenW(autogenerated_file)
            /\ pos' = [pos EXCEPT ![p] = 0]
            /\ buf' = [buf EXCEPT ![p] = <<>>]
            /\ pc' = [pc EXCEPT ![p] = "w_lock"]
            /\ ran' = [ran EXCEPT ![p] = Append(@, Ran("open_w registry", TRUE))]
            /\ UNCHANGED <<logged, config_code, exc, loaded, registry, response>>
    /\ UNCHANGED <<lock, op, ret, save_arg, lifeVars>>

\* Line 214: flock(LOCK_EX) blocks while another open file holds the lock.
WLock(p) ==
    /\ pc[p] = "w_lock"
    /\ lock = "free"
    /\ lock' = p
    /\ pc' = [pc EXCEPT ![p] = "w_write"]
    /\ UNCHANGED <<autogenerated_file, op, ret, save_arg, config_code, pos, buf,
                   logged, exc, loaded, registry, response, ran, lifeVars>>

\* The part of n lines that write() hands to the operating system at once:
\* nothing when the text fits the buffer of the file object (it then stays in
\* the buffer until close), all of it when the text is larger than the buffer.
WrittenThrough(n) == {0, n}

\* Line 215: write(config_code) on the buffered file object.
WWrite(p) ==
    /\ pc[p] = "w_write"
    /\ \E k \in WrittenThrough(Len(config_code[p])) :
        /\ autogenerated_file' =
              [autogenerated_file EXCEPT
                  !.text = WriteAt(@, pos[p], SubSeq(config_code[p], 1, k))]
        /\ pos' = [pos EXCEPT ![p] = @ + k]
        /\ buf' = [buf EXCEPT ![p] =
                      SubSeq(config_code[p], k + 1, Len(config_code[p]))]
    /\ pc' = [pc EXCEPT ![p] = "w_unlock"]
    /\ UNCHANGED <<lock, op, ret, save_arg, config_code, logged, exc, loaded,
                   registry, response, ran, lifeVars>>

\* Line 216: flock(LOCK_UN).
WUnlock(p) ==
    /\ pc[p] = "w_unlock"
    /\ lock' = "free"
    /\ pc' = [pc EXCEPT ![p] = "w_close"]
    /\ UNCHANGED <<autogenerated_file, op, ret, save_arg, config_code, pos, buf,
                   logged, exc, loaded, registry, response, ran, lifeVars>>

\* End of the with block (line 216/217): close() flushes the buffer at the
\* offset of this open file.
WClose(p) ==
    /\ pc[p] = "w_close"
    /\ autogenerated_file' =
          [autogenerated_file EXCEPT !.text = WriteAt(@, pos[p], buf[p])]
    /\ pos' = [pos EXCEPT ![p] = @ + Len(buf[p])]
    /\ buf' = [buf EXCEPT ![p] = <<>>]
    /\ pc' = [pc EXCEPT ![p] = "w_chmod"]
    /\ UNCHANGED <<lock, op, ret, save_arg, config_code, logged, exc, loaded,
                   registry, response, ran, lifeVars>>

\* Lines 217-220 as they would be if the failure of chmod were only logged:
\* the save returns normally.
WChmod_Swallowed(p) ==
    /\ pc[p] = "w_chmod"
    /\ \E ok \in BOOLEAN :
        /\ ran' = [ran EXCEPT ![p] = Append(@, Ran("chmod registry", ok))]
        /\ IF ok
           THEN /\ autogenerated_file' = Chmod600(autogenerated_file)
                /\ logged' = logged
           ELSE /\ autogenerated_file' = autogenerated_file
                /\ logged' = [logged EXCEPT ![p] = "Command cannot be executed!"]
        /\ WriteReturns(p, NoExc)
    /\ UNCHANGED <<lock, op, ret, save_arg, pos, buf, lifeVars>>

\* Lines 217-220: run chmod 600 with check=True; a failing command raises
\* CalledProcessError, which becomes AutogeneratedFileError.
WChmod(p) ==
    /\ pc[p] = "w_chmod"
    /\ \E ok \in BOOLEAN :
        /\ ran' = [ran EXCEPT ![p] = Append(@, Ran("chmod registry", ok))]
        /\ IF ok
           THEN /\ autogenerated_file' = Chmod600(autogenerated_file)
                /\ logged' = logged
                /\ WriteReturns(p, NoExc)
           ELSE /\ autogenerated_file' = autogenerated_file
                /\ logged' = [logged EXCEPT ![p] = "Command cannot be executed!"]
                /\ WriteReturns(p, "AutogeneratedFileError")
    /\ UNCHANGED <<lock, op, ret, save_arg, pos, buf, lifeVars>>

\* A request calls read_autogenerated_config(path).
StartLoad(p) ==
    /\ pc[p] = "idle"
    /\ op' = [op EXCEPT ![p] = "load"]
    /\ ret' = [ret EXCEPT ![p] = "top"]
    /\ pc' = [pc EXCEPT ![p] = "r_open"]
    /\ UNCHANGED <<autogenerated_file, lock, save_arg, config_code, pos, buf,
                   logged, exc, loaded, registry, response, ran, lifeVars>>

\* Lines 135-146 as they would be if the FileNotFoundError handler went on
\* with config_code = '' without calling write_autogenerated_config.
ROpen_NoSave(p) ==
    /\ pc[p] = "r_open"
    /\ IF ~autogenerated_file.exists
       THEN /\ logged' = [logged EXCEPT ![p] = "Writing autogenerated service configuration."]
            /\ config_code' = [config_code EXCEPT ![p] = <<>>]
            /\ pc' = [pc EXCEPT ![p] = "r_exec"]
            /\ ret' = ret
       ELSE IF ~Readable(autogenerated_file)
       THEN /\ logged' = [logged EXCEPT ![p] = "Autogenerated services files not readable!"]
            /\ pc' = [pc EXCEPT ![p] = "r_chmod"]
            /\ UNCHANGED <<config_code, ret>>
       ELSE /\ logged' = [logged EXCEPT ![p] = "Reading autogenerated service configuration."]
            /\ config_code' = [config_code EXCEPT ![p] = autogenerated_file.text]
            /\ pc' = [pc EXCEPT ![p] = "r_exec"]
            /\ ret' = ret
    /\ UNCHANGED <<autogenerated_file, lock, op, save_arg, pos, buf, exc, loaded,
                   registry, response, ran, lifeVars>>

\* Lines 135-146: open(mode='r') and read().  FileNotFoundError: the handler
\* calls write_autogenerated_config with three empty collections (line 143).
\* PermissionError: the handler goes on to chmod (line 147).
ROpen(p) ==
    /\ pc[p] = "r_open"
    /\ IF ~autogenerated_file.exists
       THEN /\ logged' = [logged EXCEPT ![p] = "Writing autogenerated service configuration."]
            /\ config_code' = [config_code EXCEPT ![p] = SerializeRegistry(EmptyRegistry)]
            /\ ret' = [ret EXCEPT ![p] = "load"]
            /\ pc' = [pc EXCEPT ![p] = "w_open"]
       ELSE IF ~Readable(autogenerated_file)
       THEN /\ logged' = [logged EXCEPT ![p] = "Autogenerated services files not readable!"]
            /\ pc' = [pc EXCEPT ![p] = "r_chmod"]
            /\ UNCHANGED <<config_code, ret>>
       ELSE /\ logged' = [logged EXCEPT ![p] = "Reading autogenerated service configuration."]
            /\ config_code' = [config_code EXCEPT ![p] = autogenerated_file.text]
            /\ pc' = [pc EXCEPT ![p] = "r_exec"]
            /\ ret' = ret
    /\ UNCHANGED <<autogenerated_file, lock, op, save_arg, pos, buf, exc, loaded,
                   registry, response, ran, lifeVars>>

\* Line 147: run chmod 600 with check=True inside the PermissionError handler.
\* The except CalledProcessError clause of line 151 belongs to the same try
\* statement, so it does not catch what a handler of that statement raises:
\* the CalledProcessError leaves the function as it is.
RChmod(p) ==
    /\ pc[p] = "r_chmod"
    /\ \E ok \in BOOLEAN :
        /\ ran' = [ran EXCEPT ![p] = Append(@, Ran("chmod registry", ok))]
        /\ IF ok
           THEN /\ autogenerated_file' = Chmod600(autogenerated_file)
                /\ pc' = [pc EXCEPT ![p] = "r_reopen"]
                /\ UNCHANGED <<exc, loaded, registry, response>>
           ELSE /\ autogenerated_file' = autogenerated_file
                /\ ReadReturns(p, "CalledProcessError", EmptyRegistry)
    /\ UNCHANGED <<lock, op, ret, save_arg, config_code, pos, buf, logged, lifeVars>>

\* Lines 148-150: the second open and read, inside the handler.
RReopen(p) ==
    /\ pc[p] = "r_reopen"
    /\ IF autogenerated_file.exists /\ Readable(autogenerated_file)
       THEN /\ logged' = [logged EXCEPT ![p] = "Reading autogenerated service configuration."]
            /\ config_code' = [config_code EXCEPT ![p] = autogenerated_file.text]
            /\ pc' = [pc EXCEPT ![p] = "r_exec"]
            /\ UNCHANGED <<exc, loaded, registry, response>>
       ELSE /\ ReadReturns(p, IF autogenerated_file.exists THEN "PermissionError"
                              ELSE "FileNotFoundError", EmptyRegistry)
            /\ UNCHANGED <<logged, config_code>>
    /\ UNCHANGED <<autogenerated_file, lock, op, ret, save_arg, pos, buf, ran, lifeVars>>

\* Lines 155-166: rewrite the text, exec it, return (services, roles, groups).
RExec(p) ==
    /\ pc[p] = "r_exec"
    /\ IF ExecRaises(Rewrite(config_code[p]))
       THEN ReadReturns(p, "SyntaxError", EmptyRegistry)
       ELSE ReadReturns(p, NoExc, Parse(config_code[p]))
    /\ ret' = [ret EXCEPT ![p] = "top"]
    /\ UNCHANGED <<autogenerated_file, lock, op, save_arg, config_code, pos, buf,
                   logged, ran, lifeVars>>

\* The request is answered; the worker takes the next one.
Finish(p) ==
    /\ pc[p] = "done"
    /\ pc' = [pc EXCEPT ![p] = "idle"]
    /\ op' = [op EXCEPT ![p] = "idle"]
    /\ ret' = [ret EXCEPT ![p] = "top"]
    /\ save_arg' = [save_arg EXCEPT ![p] = EmptyRegistry]
    /\ config_code' = [config_code EXCEPT ![p] = <<>>]
    /\ pos' = [pos EXCEPT ![p] = 0]
    /\ logged' = [logged EXCEPT ![p] = ""]
    /\ exc' = [exc EXCEPT ![p] = NoExc]
    /\ loaded' = [loaded EXCEPT ![p] = EmptyRegistry]
    /\ registry' = [registry EXCEPT ![p] = EmptyRegistry]
    /\ response' = [response EXCEPT ![p] = ""]
    /\ ran' = [ran EXCEPT ![p] = <<>>]
    /\ course_id' = [course_id EXCEPT ![p] = ""]
    /\ todo' = [todo EXCEPT ![p] = <<>>]
    /\ user_name' = [user_name EXCEPT ![p] = ""]
    /\ dst' = [dst EXCEPT ![p] = ""]
    /\ UNCHANGED <<autogenerated_file, lock, buf, delVars, gradeVars, copyVars,
                   worldVars>>

StoreStep(p) ==
    \/ WOpen(p) \/ WLock(p) \/ WWrite(p) \/ WUnlock(p) \/ WClose(p) \/ WChmod(p)
    \/ ROpen(p) \/ RChmod(p) \/ RReopen(p) \/ RExec(p)

-----------------------------------------------------------------------------
(* DELETE /courses (routes/courses_route.py, lines 207-305) *)

Range(s) == {s[i] : i \in DOMAIN s}

\* list.index(x): the first position that holds a value equal to x.
IndexOf(s, x) == CHOOSE i \in DOMAIN s : s[i] = x /\ \A j \in 1..(i - 1) : s[j] # x

\* del s[i]
DelAt(s, i) == SubSeq(s, 1, i - 1) \o SubSeq(s, i + 1, Len(s))

\* del d[k]
DictDel(d, k) == [j \in DOMAIN d \ {k} |-> d[j]]

\* Lines 243-248: for role in roles, the iteration over the list that the
\* body shortens.  i is the position the iterator reads next; raised tells
\* that role['services'].index(course_id) raised ValueError.
RECURSIVE DeleteRoles(_, _, _)
DeleteRoles(roles, i, cid) ==
    IF i > Len(roles) THEN [roles |-> roles, raised |-> FALSE]
    ELSE LET role == roles[i]
             shorter == IF role.name = RoleName(cid)
                        THEN DelAt(roles, IndexOf(roles, role))
                        ELSE roles
         IN  IF role.name = ServiceRoleName
             THEN IF cid \in Range(role.services)
                  THEN DeleteRoles(
                          [shorter EXCEPT ![i].services = DelAt(@, IndexOf(@, cid))],
                          i + 1, cid)
                  ELSE [roles |-> shorter, raised |-> TRUE]
             ELSE DeleteRoles(shorter, i + 1, cid)

\* Lines 251-255: the first service of that name is deleted, then break.
DeleteService(services, cid) ==
    IF \E i \in DOMAIN services : services[i].name = cid
    THEN DelAt(services, CHOOSE i \in DOMAIN services :
                            /\ services[i].name = cid
                            /\ \A j \in 1..(i - 1) : services[j].name # cid)
    ELSE services

\* A group check that only rejects a present, empty group and takes an
\* absent key for a group to delete.
GroupMissing_EmptyOnly(groups, cid) ==
    GroupName(cid) \in DOMAIN groups /\ groups[GroupName(cid)] = <<>>

\* Line 234-235: groups.get(key) and "if not group": the key is missing or
\* its member list is empty.
GroupMissing(groups, cid) ==
    GroupName(cid) \notin DOMAIN groups \/ groups[GroupName(cid)] = <<>>

\* Lines 207-229: the request names its user; the course is the one of the
\* user's LTI launch data.  The route calls read_autogenerated_config.
StartDelete(p) ==
    /\ pc[p] = "idle"
    /\ \E c \in CourseIds : course_id' = [course_id EXCEPT ![p] = c]
    /\ op' = [op EXCEPT ![p] = "delete"]
    /\ ret' = [ret EXCEPT ![p] = "top"]
    /\ pc' = [pc EXCEPT ![p] = "r_open"]
    /\ UNCHANGED <<autogenerated_file, lock, save_arg, config_code, pos, buf,
                   logged, exc, loaded, registry, response, ran, todo, delVars,
                   gradeVars, copyVars, moreVars>>

\* Lines 233-259: the group check, the removal of the group, role and service
\* entries from the locals, and the call of write_autogenerated_config.
DMutate(p) ==
    /\ pc[p] = "d_mutate"
    /\ LET cid == course_id[p]
           r == registry[p]
           dr == DeleteRoles(r.roles, 1, cid)
           after == Registry(DeleteService(r.services, cid), dr.roles,
                             DictDel(r.groups, GroupName(cid)))
       IN  IF GroupMissing(r.groups, cid)
           THEN /\ response' = [response EXCEPT ![p] = "GroupNotFoundError"]
                /\ pc' = [pc EXCEPT ![p] = "done"]
                /\ UNCHANGED <<registry, exc, config_code, logged>>
           ELSE IF dr.raised
           THEN /\ response' = [response EXCEPT ![p] = Uncaught]
                /\ exc' = [exc EXCEPT ![p] = "ValueError"]
                /\ pc' = [pc EXCEPT ![p] = "done"]
                /\ UNCHANGED <<registry, config_code, logged>>
           ELSE /\ registry' = [registry EXCEPT ![p] = after]
                /\ config_code' = [config_code EXCEPT ![p] = SerializeRegistry(after)]
                /\ logged' = [logged EXCEPT ![p] = "Writing autogenerated service configuration."]
                /\ pc' = [pc EXCEPT ![p] = "w_open"]
                /\ UNCHANGED <<response, exc>>
    /\ UNCHANGED <<autogenerated_file, lock, op, ret, save_arg, pos, buf, loaded,
                   ran, lifeVars>>

\* The request ends with a CalledProcessError response (the except clauses of
\* lines 267, 276).
Fails(p) ==
    /\ response' = [response EXCEPT ![p] = "CalledProcessError"]
    /\ pc' = [pc EXCEPT ![p] = "done"]

\* Lines 263-269: rm -rf /opt/nbgrader_exchange/<course_id>/.
DRmExchange(p) ==
    /\ pc[p] = "d_rm_exchange"
    /\ \E ok \in BOOLEAN :
        /\ ran' = [ran EXCEPT ![p] = Append(@, Ran("rm exchange", ok))]
        /\ IF ok
           THEN /\ exchange' = exchange \ {course_id[p]}
                /\ pc' = [pc EXCEPT ![p] = "d_userdel"]
                /\ response' = response
           ELSE /\ exchange' = exchange
                /\ Fails(p)
    /\ UNCHANGED <<storeRest, registry, reqVars, gradeVars, copyVars, moreVars,
                   accounts, homes, course_titles, restarts>>

\* Lines 271-274: userdel <grader_user>.  userdel fails for an account that
\* does not exist, and may fail for one that does (a process of the user is
\* still running).
DUserdel(p) ==
    /\ pc[p] = "d_userdel"
    /\ \E ok \in (IF course_id[p] \in accounts THEN BOOLEAN ELSE {FALSE}) :
        /\ ran' = [ran EXCEPT ![p] = Append(@, Ran("userdel", ok))]
        /\ IF ok
           THEN /\ accounts' = accounts \ {course_id[p]}
                /\ pc' = [pc EXCEPT ![p] = "d_rm_home"]
                /\ response' = response
           ELSE /\ accounts' = accounts
                /\ Fails(p)
    /\ UNCHANGED <<storeRest, registry, reqVars, gradeVars, copyVars, moreVars,
                   exchange, homes, course_titles, restarts>>

\* Lines 275-278: rm -rf /home/<grader_user>/.  The gradebook and the
\* working directories of the course are below the home directory.
DRmHome(p) ==
    /\ pc[p] = "d_rm_home"
    /\ \E ok \in BOOLEAN :
        /\ ran' = [ran EXCEPT ![p] = Append(@, Ran("rm home", ok))]
        /\ IF ok
           THEN /\ homes' = homes \ {course_id[p]}
                /\ students' = [students EXCEPT ![course_id[p]] = {}]
                /\ gradebook_db' = gradebook_db \ {course_id[p]}
                /\ course_data' = [course_data EXCEPT ![course_id[p]] = {}]
                /\ pc' = [pc EXCEPT ![p] = "d_titles"]
                /\ response' = response
           ELSE /\ UNCHANGED <<homes, students, gradebook_db, course_data>>
                /\ Fails(p)
    /\ UNCHANGED <<storeRest, registry, reqVars, group_requests, copyVars, moreVars,
                   exchange, accounts, course_titles, restarts>>

\* Lines 280-299: nbgrader_config.py is read, the key of the course is taken
\* out of the mapping c.NbGrader.course_titles and the file is written back.
DTitles(p) ==
    /\ pc[p] = "d_titles"
    /\ course_titles' = course_titles \ {course_id[p]}
    /\ ran' = [ran EXCEPT ![p] = Append(@, Ran("write nbgrader_config", TRUE))]
    /\ pc' = [pc EXCEPT ![p] = "d_restart"]
    /\ UNCHANGED <<storeRest, registry, response, reqVars, gradeVars, copyVars, moreVars,
                   exchange, accounts, homes, restarts>>

\* Lines 301-305: systemd-run --on-active=3 systemctl restart jupyterhub, run
\* without check, and the success response.
DRestart(p) ==
    /\ pc[p] = "d_restart"
    /\ \E ok \in BOOLEAN :
        /\ ran' = [ran EXCEPT ![p] = Append(@, Ran("restart", ok))]
        /\ restarts' = IF ok THEN restarts \cup {p} ELSE restarts
    /\ response' = [response EXCEPT ![p] = "200"]
    /\ pc' = [pc EXCEPT ![p] = "done"]
    /\ UNCHANGED <<storeRest, registry, reqVars, gradeVars, copyVars, moreVars,
                   exchange, accounts, homes, course_titles>>

DeleteStep(p) ==
    \/ DMutate(p) \/ DRmExchange(p) \/ DUserdel(p) \/ DRmHome(p)
    \/ DTitles(p) \/ DRestart(p)

-----------------------------------------------------------------------------
(* PATCH /courses (routes/courses_route.py, lines 135-203) *)

\* Line 194: the working directories the loop removes, in its order.
Directories == <<"autograded", "feedback", "release", "submitted">>

\* Lines 135-155: the request names its user; course and grader account are
\* the ones of the user's LTI launch data.
StartReset(p) ==
    /\ pc[p] = "idle"
    /\ \E c \in CourseIds : course_id' = [course_id EXCEPT ![p] = c]
    /\ op' = [op EXCEPT ![p] = "reset"]
    /\ pc' = [pc EXCEPT ![p] = "p_gradebook"]
    /\ UNCHANGED <<autogenerated_file, lock, ret, save_arg, config_code, pos, buf,
                   logged, exc, loaded, registry, response, ran, todo, delVars,
                   gradeVars, copyVars, moreVars>>

\* Lines 158-161: the gradebook is opened (SQLite creates the file when it
\* is absent) and every student is removed.  The block has no try: an
\* exception of the gradebook is not caught by the route.
PGradebook(p) ==
    /\ pc[p] = "p_gradebook"
    /\ \E ok \in BOOLEAN :
        /\ ran' = [ran EXCEPT ![p] = Append(@, Ran("remove students", ok))]
        /\ IF ok
           THEN /\ students' = [students EXCEPT ![course_id[p]] = {}]
                /\ gradebook_db' = gradebook_db \cup {course_id[p]}
                /\ pc' = [pc EXCEPT ![p] = "p_group"]
                /\ UNCHANGED <<response, exc>>
           ELSE /\ UNCHANGED <<students, gradebook_db>>
                /\ exc' = [exc EXCEPT ![p] = "GradebookError"]
                /\ response' = [response EXCEPT ![p] = Uncaught]
                /\ pc' = [pc EXCEPT ![p] = "done"]
    /\ UNCHANGED <<autogenerated_file, lock, op, ret, save_arg, config_code, pos,
                   buf, logged, loaded, registry, reqVars, delVars,
                   group_requests, course_data, copyVars, moreVars>>

\* Lines 163-174: systemd-run curl -X DELETE .../groups/nbgrader-<id>/users.
\* run() is called without check=True: its return code is not looked at and
\* the route goes on whether the command succeeded or not.
PGroup(p) ==
    /\ pc[p] = "p_group"
    /\ \E ok \in BOOLEAN :
        /\ ran' = [ran EXCEPT ![p] = Append(@, Ran("remove group members", ok))]
        /\ group_requests' = IF ok THEN group_requests \cup {course_id[p]}
                                   ELSE group_requests
    /\ pc' = [pc EXCEPT ![p] = "p_rm_exchange"]
    /\ UNCHANGED <<storeRest, registry, response, reqVars, delVars, students,
                   gradebook_db, course_data, copyVars, moreVars>>

\* Lines 176-183: rm -rf /opt/nbgrader_exchange/<course_id>/.
PRmExchange(p) ==
    /\ pc[p] = "p_rm_exchange"
    /\ \E ok \in BOOLEAN :
        /\ ran' = [ran EXCEPT ![p] = Append(@, Ran("rm exchange", ok))]
        /\ IF ok
           THEN /\ exchange' = exchange \ {course_id[p]}
                /\ pc' = [pc EXCEPT ![p] = "p_rm_gradebook"]
                /\ response' = response
           ELSE /\ exchange' = exchange
                /\ Fails(p)
    /\ UNCHANGED <<storeRest, registry, reqVars, gradeVars, copyVars, moreVars,
                   accounts, homes, course_titles, restarts>>

\* Lines 185-192: rm /home/<grader_user>/course_data/gradebook.db.  rm
\* without -f fails when the file does not exist.
PRmGradebook(p) ==
    /\ pc[p] = "p_rm_gradebook"
    /\ \E ok \in {b \in BOOLEAN : b => course_id[p] \in gradebook_db} :
        /\ ran' = [ran EXCEPT ![p] = Append(@, Ran("rm gradebook.db", ok))]
        /\ IF ok
           THEN /\ gradebook_db' = gradebook_db \ {course_id[p]}
                /\ todo' = [todo EXCEPT ![p] = Directories]
                /\ pc' = [pc EXCEPT ![p] = "p_rm_dir"]
                /\ response' = response
           ELSE /\ UNCHANGED <<gradebook_db, todo>>
                /\ Fails(p)
    /\ UNCHANGED <<storeRest, registry, course_id, delVars, students,
                   group_requests, course_data, copyVars, moreVars>>

\* Lines 194-203: rm -rf /home/<grader_user>/course_data/<directory>/ for
\* the next directory of the loop; the success response after the last one.
PRmDir(p) ==
    /\ pc[p] = "p_rm_dir"
    /\ todo[p] # <<>>
    /\ \E ok \in BOOLEAN :
        /\ ran' = [ran EXCEPT ![p] = Append(@, Ran("rm " \o Head(todo[p]), ok))]
        /\ IF ok
           THEN /\ course_data' = [course_data EXCEPT
                                     ![course_id[p]] = @ \ {Head(todo[p])}]
                /\ todo' = [todo EXCEPT ![p] = Tail(@)]
                /\ IF Len(todo[p]) = 1
                   THEN /\ response' = [response EXCEPT ![p] = "200"]
                        /\ pc' = [pc EXCEPT ![p] = "done"]
                   ELSE UNCHANGED <<response, pc>>
           ELSE /\ UNCHANGED <<course_data, todo>>
                /\ Fails(p)
    /\ UNCHANGED <<storeRest, registry, course_id, delVars, students,
                   group_requests, gradebook_db, copyVars, moreVars>>

ResetStep(p) ==
    \/ PGradebook(p) \/ PGroup(p) \/ PRmExchange(p) \/ PRmGradebook(p)
    \/ PRmDir(p)

-----------------------------------------------------------------------------
(* POST /assignments (routes/assignments_route.py, lines 31-54) *)

\* Lines 31-41: fromPath and toPath of the request, and info.json of the
\* course the assignment is copied from.  load_info raises InfoFileError
\* when the file cannot be read; the route does not catch it.
StartCopyAssignment(p) ==
    /\ pc[p] = "idle"
    /\ op' = [op EXCEPT ![p] = "copy_assignment"]
    /\ \E readable \in BOOLEAN :
        IF readable
        THEN /\ pc' = [pc EXCEPT ![p] = "a_cp"]
             /\ UNCHANGED <<exc, response>>
        ELSE /\ pc' = [pc EXCEPT ![p] = "done"]
             /\ exc' = [exc EXCEPT ![p] = "InfoFileError"]
             /\ response' = [response EXCEPT ![p] = Uncaught]
    /\ UNCHANGED <<autogenerated_file, lock, ret, save_arg, config_code, pos, buf,
                   logged, loaded, registry, ran, lifeVars>>

\* What an external action of a copy-in leaves alone.
CopyRest == <<storeRest, registry, reqVars, delVars, gradeVars, moreVars>>

\* Lines 44-45: cp -r <src> <src>_<time>.  A copy that fails may have
\* created a part of the tree.
ACp(p) ==
    /\ pc[p] = "a_cp"
    /\ \E ok \in BOOLEAN :
        /\ ran' = [ran EXCEPT ![p] = Append(@, Ran("cp", ok))]
        /\ IF ok
           THEN /\ trees' = trees \cup {"tmp"}
                /\ pc' = [pc EXCEPT ![p] = "a_mkdir"]
                /\ response' = response
           ELSE /\ trees' \in {trees, trees \cup {"tmp"}}
                /\ Fails(p)
    /\ UNCHANGED <<CopyRest, owned>>

\* A mkdir whose return code is not looked at.
AMkdir_Unchecked(p) ==
    /\ pc[p] = "a_mkdir"
    /\ \E ok \in BOOLEAN :
        /\ ran' = [ran EXCEPT ![p] = Append(@, Ran("mkdir", ok))]
        /\ trees' = IF ok THEN trees \cup {"dst"} ELSE trees
    /\ pc' = [pc EXCEPT ![p] = "a_mv"]
    /\ UNCHANGED <<CopyRest, owned, response>>

\* Line 46: mkdir -p <toPath>/source/.
AMkdir(p) ==
    /\ pc[p] = "a_mkdir"
    /\ \E ok \in BOOLEAN :
        /\ ran' = [ran EXCEPT ![p] = Append(@, Ran("mkdir", ok))]
        /\ IF ok
           THEN /\ trees' = trees \cup {"dst"}
                /\ pc' = [pc EXCEPT ![p] = "a_mv"]
                /\ response' = response
           ELSE /\ trees' = trees
                /\ Fails(p)
    /\ UNCHANGED <<CopyRest, owned>>

\* Line 47: mv <src>_<time> <toPath>/source/.
AMv(p) ==
    /\ pc[p] = "a_mv"
    /\ \E ok \in BOOLEAN :
        /\ ran' = [ran EXCEPT ![p] = Append(@, Ran("mv", ok))]
        /\ IF ok
           THEN /\ trees' = (trees \ {"tmp"}) \cup {"dst/tmp"}
                /\ pc' = [pc EXCEPT ![p] = "a_chown"]
                /\ response' = response
           ELSE /\ trees' = trees
                /\ Fails(p)
    /\ UNCHANGED <<CopyRest, owned>>

\* The course of the destination <toPath> of an assignment copy-in; owned
\* holds the trees that belong to the grader account of this course.
DestinationCourse == "c-1"

\* What <toPath>/source/ can hold: the directory, an assignment that was
\* there before, and the assignment that mv put there.
BelowSource == {"dst", "dst/old", "dst/tmp"}

\* Lines 40-41 and 48-54: chown -R <grader>:<grader> <toPath>/source/ and
\* the success response.  grader_user is what info.json of the course of
\* <fromPath> names, the grader account of any course; chown -R gives every
\* entry below <toPath>/source/ to that account.
AChown(p) ==
    /\ pc[p] = "a_chown"
    /\ \E ok \in BOOLEAN, grader_user \in CourseIds :
        /\ ran' = [ran EXCEPT ![p] = Append(@, Ran("chown", ok))]
        /\ IF ok
           THEN /\ owned' = IF grader_user = DestinationCourse
                            THEN owned \cup (trees \cap BelowSource)
                            ELSE owned \ BelowSource
                /\ response' = [response EXCEPT ![p] = "200"]
                /\ pc' = [pc EXCEPT ![p] = "done"]
           ELSE /\ owned' = owned
                /\ Fails(p)
    /\ UNCHANGED <<CopyRest, trees>>

-----------------------------------------------------------------------------
(* POST /courses (routes/courses_route.py, lines 50-110) *)

MaxAssignments == 2

Assignments == {"a1", "a2"}

\* Line 75: the directories of the chosen course that hold a notebook, as
\* glob lists them: no directory twice.
AssignmentLists ==
    {l \in SeqUpTo(Assignments, MaxAssignments) :
        \A i, j \in DOMAIN l : i # j => l[i] # l[j]}

\* The copy of an assignment below course_data/source/.
CopyOf(a) == "source/" \o a

\* Lines 50-75: user and path of the request, the course of the user's LTI
\* launch data and the list of assignments to copy.
StartCopyCourse(p) ==
    /\ pc[p] = "idle"
    /\ op' = [op EXCEPT ![p] = "copy_course"]
    /\ \E c \in CourseIds : course_id' = [course_id EXCEPT ![p] = c]
    /\ \E l \in AssignmentLists : todo' = [todo EXCEPT ![p] = l]
    /\ pc' = [pc EXCEPT ![p] = "c_mkdir"]
    /\ UNCHANGED <<autogenerated_file, lock, ret, save_arg, config_code, pos, buf,
                   logged, exc, loaded, registry, response, ran, delVars,
                   gradeVars, copyVars, moreVars>>

\* Lines 77-86: mkdir -p /home/<grader>/course_data/source/, run only when
\* the directory does not exist.
CMkdir(p) ==
    /\ pc[p] = "c_mkdir"
    /\ IF "source" \in trees
       THEN /\ pc' = [pc EXCEPT ![p] = "c_cp"]
            /\ UNCHANGED <<ran, trees, response>>
       ELSE \E ok \in BOOLEAN :
            /\ ran' = [ran EXCEPT ![p] = Append(@, Ran("mkdir source", ok))]
            /\ IF ok
               THEN /\ trees' = trees \cup {"source"}
                    /\ pc' = [pc EXCEPT ![p] = "c_cp"]
                    /\ response' = response
               ELSE /\ trees' = trees
                    /\ Fails(p)
    /\ UNCHANGED <<CopyRest, owned>>

\* Lines 88-101: cp -r <assignment>/ <source folder>/<name> (<time>)/ for
\* the next assignment of the loop.
CCp(p) ==
    /\ pc[p] = "c_cp"
    /\ todo[p] # <<>>
    /\ \E ok \in BOOLEAN :
        /\ ran' = [ran EXCEPT ![p] = Append(@, Ran("cp " \o Head(todo[p]), ok))]
        /\ IF ok
           THEN /\ trees' = trees \cup {CopyOf(Head(todo[p]))}
                /\ pc' = [pc EXCEPT ![p] = "c_chown"]
                /\ response' = response
           ELSE /\ trees' \in {trees, trees \cup {CopyOf(Head(todo[p]))}}
                /\ Fails(p)
    /\ UNCHANGED <<CopyRest, owned>>

\* Lines 102-107: chown -R <grader>:<grader> of the copy; the loop goes on
\* with the next assignment.
CChown(p) ==
    /\ pc[p] = "c_chown"
    /\ \E ok \in BOOLEAN :
        /\ ran' = [ran EXCEPT ![p] = Append(@, Ran("chown " \o Head(todo[p]), ok))]
        /\ IF ok
           THEN /\ owned' = owned \cup {CopyOf(Head(todo[p]))}
                /\ todo' = [todo EXCEPT ![p] = Tail(@)]
                /\ pc' = [pc EXCEPT ![p] = "c_cp"]
                /\ response' = response
           ELSE /\ UNCHANGED <<owned, todo>>
                /\ Fails(p)
    /\ UNCHANGED <<storeRest, registry, course_id, delVars, gradeVars, trees,
                   moreVars>>

\* Lines 109-110: the success response when the loop has ended.
CReturn(p) ==
    /\ pc[p] = "c_cp"
    /\ todo[p] = <<>>
    /\ response' = [response EXCEPT ![p] = "200"]
    /\ pc' = [pc EXCEPT ![p] = "done"]
    /\ UNCHANGED <<storeRest, registry, ran, lifeVars>>

CopyStep(p) ==
    \/ ACp(p) \/ AMkdir(p) \/ AMv(p) \/ AChown(p)
    \/ CMkdir(p) \/ CCp(p) \/ CChown(p) \/ CReturn(p)

-----------------------------------------------------------------------------
(* PUT /courses (routes/courses_route.py, lines 113-133) *)

\* Line 122: the values time.strftime can give to two requests.
Stamps == {"t1", "t2"}

\* Line 123: /var/lib/private/<user_name>/<name>_<actual_date_time>/.
BackupPath(u, t) == "/var/lib/private/" \o u \o "/name_" \o t \o "/"

BackupTrees == {BackupPath(u, t) : u \in Users, t \in Stamps}

\* The account the service runs as: what it creates belongs to it.
ServiceAccount == "root"

\* Lines 113-123: user, path and name of the request and the destination.
StartBackup(p) ==
    /\ pc[p] = "idle"
    /\ op' = [op EXCEPT ![p] = "backup"]
    /\ \E u \in Users, t \in Stamps :
        /\ user_name' = [user_name EXCEPT ![p] = u]
        /\ dst' = [dst EXCEPT ![p] = BackupPath(u, t)]
    /\ pc' = [pc EXCEPT ![p] = "b_cp"]
    /\ UNCHANGED <<autogenerated_file, lock, ret, save_arg, config_code, pos, buf,
                   logged, exc, loaded, registry, response, ran, reqVars, delVars,
                   gradeVars, copyVars, worldVars>>

\* What an external action of a backup leaves alone.
BackupRest == <<storeRest, registry, reqVars, delVars, gradeVars, copyVars,
                localVars, listVars>>

\* Lines 126-127: cp -r <src> <dst>.  What cp creates belongs to the service
\* account; a copy that fails may have created a part of the tree.
BCp(p) ==
    /\ pc[p] = "b_cp"
    /\ \E ok \in BOOLEAN :
        /\ ran' = [ran EXCEPT ![p] = Append(@, Ran("cp", ok))]
        /\ IF ok
           THEN /\ archive' = [archive EXCEPT ![dst[p]] = ServiceAccount]
                /\ pc' = [pc EXCEPT ![p] = "b_chown"]
                /\ response' = response
           ELSE /\ archive' \in {archive,
                                 [archive EXCEPT ![dst[p]] = ServiceAccount]}
                /\ Fails(p)
    /\ UNCHANGED BackupRest

\* A chown that hands the tree to the grader account of the course.
BChown_Grader(p) ==
    /\ pc[p] = "b_chown"
    /\ \E ok \in BOOLEAN :
        /\ ran' = [ran EXCEPT ![p] = Append(@, Ran("chown grader", ok))]
        /\ IF ok
           THEN /\ archive' = [archive EXCEPT ![dst[p]] = "grader"]
                /\ response' = [response EXCEPT ![p] = "200"]
                /\ pc' = [pc EXCEPT ![p] = "done"]
           ELSE /\ archive' = archive
                /\ Fails(p)
    /\ UNCHANGED BackupRest

\* Lines 128-133: chown -R <user_name>:<user_name> <dst> and the success
\* response.
BChown(p) ==
    /\ pc[p] = "b_chown"
    /\ \E ok \in BOOLEAN :
        /\ ran' = [ran EXCEPT ![p] = Append(@, Ran("chown " \o user_name[p], ok))]
        /\ IF ok
           THEN /\ archive' = [archive EXCEPT ![dst[p]] = user_name[p]]
                /\ response' = [response EXCEPT ![p] = "200"]
                /\ pc' = [pc EXCEPT ![p] = "done"]
           ELSE /\ archive' = archive
                /\ Fails(p)
    /\ UNCHANGED BackupRest

BackupStep(p) == BCp(p) \/ BChown(p)

-----------------------------------------------------------------------------
(* The name deduplicator (misc/utils.py, generate_unique_names, lines        *)
(* 454-519).  A string is the sequence of its characters and a path is the   *)
(* sequence that path.split('/') gives: the empty string first, then the     *)
(* components.                                                               *)

\* Python's s.removesuffix(suf).
RemoveSuffix(s, suf) ==
    IF /\ Len(suf) <= Len(s)
       /\ SubSeq(s, Len(s) - Len(suf) + 1, Len(s)) = suf
    THEN SubSeq(s, 1, Len(s) - Len(suf))
    ELSE s

\* Python's path.split('/')[-k].
FromEnd(path, k) == path[Len(path) - k + 1]

Ipynb == <<".", "i", "p", "y", "n", "b">>

\* The value of info['title_short'] when info.json cannot be read.
NoInfo == <<"<unreadable>">>

\* Lines 480-490: the label of an active path.  The grader account is the
\* component after /home/.
ActiveName(kind, path, titles) ==
    LET title_short == titles[path[3]]
    IN  CASE kind = "courses" -> title_short
          [] kind = "assignments" ->
                FromEnd(path, 1) \o <<" ", "(">> \o title_short \o <<")">>
          [] kind = "problems" ->
                RemoveSuffix(FromEnd(path, 1), Ipynb) \o <<" ", "(">> \o title_short
                    \o <<",", " ">> \o FromEnd(path, 2) \o <<")">>

\* Lines 498-503: the label of a backed up path.
BackedUpName(kind, path) ==
    CASE kind = "courses" -> FromEnd(path, 1) \o <<" ", "(", "B", "a", "c", "k", "u", "p">> \o <<")">>
      [] kind = "assignments" ->
            FromEnd(path, 1) \o <<" ", "(", "B", "a", "c", "k", "u", "p">> \o <<",", " ">> \o FromEnd(path, 3) \o <<")">>
      [] kind = "problems" ->
            RemoveSuffix(FromEnd(path, 1), Ipynb) \o <<" ", "(", "B", "a", "c", "k", "u", "p">> \o <<",", " ">>
                \o FromEnd(path, 4) \o <<",", " ">> \o FromEnd(path, 2) \o <<")">>

\* A replacement that leaves every name as it is.
ReplaceUnderscores_Keep(name) == name

\* Line 515: name.replace('_', ' ').
ReplaceUnderscores(name) ==
    [i \in DOMAIN name |-> IF name[i] = "_" THEN " " ELSE name[i]]

\* Lines 509-511: np.unique counted some name more than once.
HasDuplicate(names) ==
    \E i, j \in DOMAIN names : i # j /\ names[i] = names[j]

\* What a call returns: the exception it raised ("" for none) and its list.
Returned(raised, names) == [raised |-> raised, names |-> names]

\* Lines 509-515 for one of the two lists.  With a duplicate, line 512
\* subscripts typing.Counter with the list and hands the result to dict(),
\* which raises TypeError; without one the names get their underscores
\* replaced.
UniqueNamesOf(content_names) ==
    IF HasDuplicate(content_names)
    THEN Returned("TypeError", <<>>)
    ELSE Returned("", [i \in DOMAIN content_names |->
                          ReplaceUnderscores(content_names[i])])

\* Lines 478-519.  load_info raises InfoFileError for an info.json that
\* cannot be read; the backed up list is visited only when it is not empty.
generate_unique_names(kind, active, backed_up, titles) ==
    LET active_names == [i \in DOMAIN active |->
                            ActiveName(kind, active[i], titles)]
        backed_up_names == [i \in DOMAIN backed_up |->
                               BackedUpName(kind, backed_up[i])]
        first == UniqueNamesOf(active_names)
        second == UniqueNamesOf(backed_up_names)
    IN  IF \E i \in DOMAIN active : titles[active[i][3]] = NoInfo
        THEN Returned("InfoFileError", <<>>)
        ELSE IF first.raised # "" THEN first
        ELSE IF backed_up = <<>> THEN first
        ELSE IF second.raised # "" THEN second
        ELSE Returned("", first.names \o second.names)

\* The characters of the model in the order of their code points.
CodeOrder ==
    <<" ", "(", ")", ",", "-", ".", "/", "1", "2", "3", "B", "F", "_",
      "a", "b", "c", "d", "e", "f", "g", "h", "i", "k", "l", "m", "n", "o", "p", "r", "s", "t", "u", "v", "x", "y">>

Code(c) == CHOOSE i \in DOMAIN CodeOrder : CodeOrder[i] = c

\* Python's s < t for two strings.
RECURSIVE Less(_, _)
Less(s, t) ==
    IF s = <<>> THEN t # <<>>
    ELSE IF t = <<>> THEN FALSE
    ELSE IF s[1] = t[1] THEN Less(Tail(s), Tail(t))
    ELSE Code(s[1]) < Code(t[1])

\* The string of a path: '/'.join(components).
RECURSIVE Join(_)
Join(path) ==
    IF Len(path) = 1 THEN path[1]
    ELSE path[1] \o <<"/">> \o Join(Tail(path))

\* Lines 316 and 377: sorted(paths) for a set of different paths.
RECURSIVE Sorted(_)
Sorted(paths) ==
    IF paths = {} THEN <<>>
    ELSE LET least == CHOOSE x \in paths :
                        \A y \in paths \ {x} : Less(Join(x), Join(y))
         IN  <<least>> \o Sorted(paths \ {least})

\* The grader accounts with a home directory and the values title_short
\* has in their info.json.
Graders == {<<"c", "-", "1">>, <<"c", "-", "2">>, <<"c", "-", "3">>}

Titles == {<<"F">>, <<"a", "_", "b">>, <<"a", " ", "b">>}

\* The active paths of the three content kinds, as get_active_paths builds
\* them (lines 296-306).
ActivePathsOf(kind) ==
    CASE kind = "courses" ->
            {<<<<>>, <<"h", "o", "m", "e">>, g, <<"c", "o", "u", "r", "s", "e", "_", "d", "a", "t", "a">>>> : g \in Graders}
      [] kind = "assignments" ->
            {<<<<>>, <<"h", "o", "m", "e">>, g, <<"c", "o", "u", "r", "s", "e", "_", "d", "a", "t", "a">>, <<"s", "o", "u", "r", "c", "e">>, <<"x">>>> : g \in Graders}
      [] kind = "problems" ->
            {<<<<>>, <<"h", "o", "m", "e">>, g, <<"c", "o", "u", "r", "s", "e", "_", "d", "a", "t", "a">>, <<"s", "o", "u", "r", "c", "e">>, <<"x">>, <<"n", ".", "i", "p", "y", "n", "b">>>> : g \in Graders}

\* The names of a user's backups below /var/lib/private/<user>/.
BackupNames == {<<"a", "_", "b">>, <<"a", " ", "b">>}

\* The backed up paths of the three content kinds, as get_backed_up_paths
\* builds them (lines 350-373).
BackedUpPathsOf(kind) ==
    LET base == <<<<>>, <<"v", "a", "r">>, <<"l", "i", "b">>, <<"p", "r", "i", "v", "a", "t", "e">>, <<"u", "1">>>>
    IN  CASE kind = "courses" -> {base \o <<b>> : b \in BackupNames}
          [] kind = "assignments" ->
                {base \o <<b, <<"s", "o", "u", "r", "c", "e">>, <<"x">>>> : b \in BackupNames}
          [] kind = "problems" ->
                {base \o <<b, <<"s", "o", "u", "r", "c", "e">>, <<"x">>, <<"n", ".", "i", "p", "y", "n", "b">>>> : b \in BackupNames}

Contents == {"courses", "assignments", "problems"}

\* generate_unique_names has not been called.
Pending == Returned("<pending>", <<>>)

\* A call of generate_unique_names (lines 454-519) with two lists of the
\* resolvers, as in get_list (line 440).
GenerateNames ==
    /\ unique_names = Pending
    /\ resolved = {"active", "backed_up"}
    /\ unique_names' = generate_unique_names(content, active_paths,
                                             backed_up_paths, info)
    /\ UNCHANGED <<storeVars, registry, response, ran, reqVars, delVars,
                   gradeVars, copyVars, localVars, archive, content, info,
                   active_paths, backed_up_paths, fs, list_groups, resolved,
                   subset, list_response, auxVars>>

-----------------------------------------------------------------------------
(* The path resolver (misc/utils.py, get_active_paths, lines 249-325, and    *)
(* get_backed_up_paths, lines 328-377).  The file system is the set of its   *)
(* leaves: a file, or a directory with nothing in it; every path above a     *)
(* leaf is a directory.                                                      *)

Entry(path, dir) == [path |-> path, dir |-> dir]

\* The sequence s begins with the sequence t.
StartsWith(s, t) == Len(t) <= Len(s) /\ SubSeq(s, 1, Len(t)) = t

EndsWith(s, t) == Len(t) <= Len(s) /\ SubSeq(s, Len(s) - Len(t) + 1, Len(s)) = t

\* Path.exists, Path.is_dir and Path.is_file.
Exists(files, path) == \E e \in files : StartsWith(e.path, path)

IsDir(files, path) ==
    \E e \in files : StartsWith(e.path, path) /\ (e.path # path \/ e.dir)

IsFile(files, path) == \E e \in files : e.path = path /\ ~e.dir

\* Everything below a directory, and what is directly in it.
Below(files, d) ==
    UNION {{SubSeq(e.path, 1, n) : n \in (Len(d) + 1)..Len(e.path)} :
              e \in {f \in files : StartsWith(f.path, d)}}

Children(files, d) == {p \in Below(files, d) : Len(p) = Len(d) + 1}

\* name.startswith('.').
Hidden(name) == name # <<>> /\ name[1] = "."

\* any(part.name.startswith('.') for part in path.parents): the components
\* above the last one.
HiddenParents(path) == \E i \in 1..(Len(path) - 1) : Hidden(path[i])

\* Python's s.lstrip(chars): leading characters of the set are dropped.
RECURSIVE Lstrip(_, _)
Lstrip(s, chars) ==
    IF s # <<>> /\ s[1] \in chars THEN Lstrip(Tail(s), chars) ELSE s

\* Line 278: the characters of 'formgrade-'.
FormgradeChars == {"f", "o", "r", "m", "g", "a", "d", "e", "-"}

Formgrade == <<"f", "o", "r", "m", "g", "r", "a", "d", "e", "-">>

Home == <<<<>>, <<"h", "o", "m", "e">>>>

\* Line 285: the group a home directory belongs to is the group of the
\* grader account, which has the name of the account.
GroupOfHome(name) == name

\* Lines 276-316 (the subsets ALL and ACTIVE).  rglob and glob of pathlib
\* also match names that begin with a dot.  In the filter of lines 311-313
\* `and` binds tighter than `or`: a directory passes without a look at its
\* parents.
get_active_paths(user, groups, kind, files) ==
    LET owned_groups == {Lstrip(g, FormgradeChars) :
                            g \in {k \in DOMAIN groups : user \in groups[k]}}
        base_paths == {b \in Children(files, Home) :
                          IsDir(files, b) /\ GroupOfHome(b[3]) \in owned_groups}
        source(b) == b \o <<<<"c", "o", "u", "r", "s", "e", "_", "d", "a", "t", "a">>, <<"s", "o", "u", "r", "c", "e">>>>
        found(b) ==
            CASE kind = "courses" ->
                    IF Exists(files, b \o <<<<"c", "o", "u", "r", "s", "e", "_", "d", "a", "t", "a">>>>) THEN {b \o <<<<"c", "o", "u", "r", "s", "e", "_", "d", "a", "t", "a">>>>} ELSE {}
              [] kind = "assignments" ->
                    IF Exists(files, source(b))
                    THEN Children(files, source(b)) ELSE {}
              [] kind = "problems" ->
                    IF Exists(files, source(b))
                    THEN {p \in Below(files, source(b)) :
                             EndsWith(p[Len(p)], Ipynb)}
                    ELSE {}
        kept(b) == {p \in found(b) :
                       \/ IsDir(files, p)
                       \/ /\ kind = "problems" /\ IsFile(files, p)
                          /\ ~HiddenParents(p)}
    IN  Sorted(UNION {kept(b) : b \in base_paths})

\* Lines 350-377.
get_backed_up_paths(user, kind, files) ==
    LET base_dir == <<<<>>, <<"v", "a", "r">>, <<"l", "i", "b">>, <<"p", "r", "i", "v", "a", "t", "e">>, user>>
        sources == {s \in {c \o <<<<"s", "o", "u", "r", "c", "e">>>> : c \in Children(files, base_dir)} :
                       IsDir(files, s)}
    IN  Sorted(
          CASE kind = "courses" ->
                  {p \in Children(files, base_dir) :
                      /\ IsDir(files, p) /\ ~HiddenParents(p)
                      /\ ~Hidden(p[Len(p)])}
            [] kind = "assignments" ->
                  UNION {{p \in Children(files, s) :
                             IsDir(files, p) /\ ~Hidden(p[Len(p)])} :
                            s \in sources}
            [] kind = "problems" ->
                  UNION {{p \in Below(files, s) :
                             /\ EndsWith(p[Len(p)], Ipynb)
                             /\ IsFile(files, p) /\ ~HiddenParents(p)} :
                            s \in sources})

\* The requesting user of a listing.
ListUser == <<"u", "1">>

\* The leaves a file system is made of.
ActiveLeaves ==
    { Entry(<<<<>>, <<"h", "o", "m", "e">>, <<"c", "-", "1">>, <<"c", "o", "u", "r", "s", "e", "_", "d", "a", "t", "a">>, <<"s", "o", "u", "r", "c", "e">>, <<"x">>, <<"n", ".", "i", "p", "y", "n", "b">>>>, FALSE),
      Entry(<<<<>>, <<"h", "o", "m", "e">>, <<"c", "-", "1">>, <<"c", "o", "u", "r", "s", "e", "_", "d", "a", "t", "a">>, <<"s", "o", "u", "r", "c", "e">>, <<"x">>, <<".", "n", ".", "i", "p", "y", "n", "b">>>>, FALSE),
      Entry(<<<<>>, <<"h", "o", "m", "e">>, <<"c", "-", "1">>, <<"c", "o", "u", "r", "s", "e", "_", "d", "a", "t", "a">>, <<"s", "o", "u", "r", "c", "e">>, <<".", "h">>, <<"n", ".", "i", "p", "y", "n", "b">>>>, FALSE),
      Entry(<<<<>>, <<"h", "o", "m", "e">>, <<"c", "-", "1">>, <<"c", "o", "u", "r", "s", "e", "_", "d", "a", "t", "a">>>>, TRUE),
      Entry(<<<<>>, <<"h", "o", "m", "e">>, <<"c", "-", "2">>, <<"c", "o", "u", "r", "s", "e", "_", "d", "a", "t", "a">>, <<"s", "o", "u", "r", "c", "e">>, <<"x">>>>, TRUE) }

BackedUpLeaves ==
    { Entry(<<<<>>, <<"v", "a", "r">>, <<"l", "i", "b">>, <<"p", "r", "i", "v", "a", "t", "e">>, <<"u", "1">>, <<"b">>, <<"s", "o", "u", "r", "c", "e">>, <<"x">>, <<"n", ".", "i", "p", "y", "n", "b">>>>, FALSE),
      Entry(<<<<>>, <<"v", "a", "r">>, <<"l", "i", "b">>, <<"p", "r", "i", "v", "a", "t", "e">>, <<"u", "1">>, <<"b">>, <<"s", "o", "u", "r", "c", "e">>, <<"x">>, <<".", "n", ".", "i", "p", "y", "n", "b">>>>, FALSE),
      Entry(<<<<>>, <<"v", "a", "r">>, <<"l", "i", "b">>, <<"p", "r", "i", "v", "a", "t", "e">>, <<"u", "1">>, <<".", "b">>, <<"s", "o", "u", "r", "c", "e">>, <<"x">>, <<"n", ".", "i", "p", "y", "n", "b">>>>, FALSE),
      Entry(<<<<>>, <<"v", "a", "r">>, <<"l", "i", "b">>, <<"p", "r", "i", "v", "a", "t", "e">>, <<"u", "1">>, <<"a", "_", "b">>>>, TRUE) }

\* The groups of the registry, as a listing gets them from the load.
ListGroups ==
    [{Formgrade \o <<"c", "-", "1">>, Formgrade \o <<"c", "-", "2">>} -> SUBSET {ListUser}]

\* Line 414: get_list calls get_active_paths.
ResolveActive ==
    /\ "active" \notin resolved
    /\ active_paths' = get_active_paths(ListUser, list_groups, content, fs)
    /\ resolved' = resolved \cup {"active"}
    /\ UNCHANGED <<storeVars, registry, response, ran, reqVars, delVars,
                   gradeVars, copyVars, localVars, archive, content, info,
                   backed_up_paths, unique_names, fs, list_groups, subset,
                   list_response, auxVars>>

\* Line 436: get_list calls get_backed_up_paths.
ResolveBackedUp ==
    /\ "backed_up" \notin resolved
    /\ backed_up_paths' = get_backed_up_paths(ListUser, content, fs)
    /\ resolved' = resolved \cup {"backed_up"}
    /\ UNCHANGED <<storeVars, registry, response, ran, reqVars, delVars,
                   gradeVars, copyVars, localVars, archive, content, info,
                   active_paths, unique_names, fs, list_groups, subset,
                   list_response, auxVars>>

\* The Response of get_list: its status, the message of its body and, in a
\* list of content, the names and the paths.
ListResponse(status, message, names, paths) ==
    [status |-> status, message |-> message, names |-> names, paths |-> paths]

\* No listing was asked for yet.
NoResponse == ListResponse("", "", <<>>, <<>>)

\* An exception that leaves get_list: no handler of get_list or of its routes
\* (except ValueError) catches it.
Escapes(e) == ListResponse(Uncaught, e, <<>>, <<>>)

\* Lines 423-433 and 440-451: the names of the paths, and the list of content.
ContentList(kind, active, backed_up, titles) ==
    LET names == generate_unique_names(kind, active, backed_up, titles)
    IN  IF names.raised # ""
        THEN Escapes(names.raised)
        ELSE ListResponse("200", "successfully retrieved", names.names,
                          active \o backed_up)

\* Lines 414-451 of get_list, for the groups that line 410 loaded.  The enum
\* Subset has the members ALL, ACTIVE and OTHER: when subset is not ACTIVE,
\* line 421 evaluates Subset.CURRENT, which raises AttributeError.
get_list(groups, kind, sub, files, titles) ==
    LET active == get_active_paths(ListUser, groups, kind, files)
    IN  IF active = <<>>
        THEN ListResponse("500", "NoActiveCoursesFoundError", <<>>, <<>>)
        ELSE IF sub = "ACTIVE"
        THEN ContentList(kind, active, <<>>, titles)
        ELSE Escapes("AttributeError")

\* The values of subset that get_active_paths resolves in its first branch.
Subsets == {"ALL", "ACTIVE"}

\* GET /courses, /assignments or /problems is answered.
GetList ==
    /\ list_response = NoResponse
    /\ list_response' = get_list(list_groups, content, subset, fs, info)
    /\ UNCHANGED <<storeVars, registry, response, ran, reqVars, delVars,
                   gradeVars, copyVars, localVars, archive, content, info,
                   active_paths, backed_up_paths, unique_names, fs,
                   list_groups, resolved, subset, auxVars>>

-----------------------------------------------------------------------------
(* make_course_id *)

\* A key that the LTI claims do not hold: dict.get returns its default.
Missing == <<"<missing>">>

LtiState(deployment_id, resource_link_id, resource_link_title, context_title) ==
    [deployment_id |-> deployment_id, resource_link_id |-> resource_link_id,
     resource_link_title |-> resource_link_title,
     context_title |-> context_title]

\* Line 102 as it would be if the title went into the hashed text.
HashInput_WithTitle(lti) ==
    lti.deployment_id \o <<"-">> \o lti.resource_link_id \o lti.context_title

\* Lines 97-98 and 102: the text that is hashed,
\* f'{deployment_id}-{resource_link_id}', deployment_id being '0' when the
\* claim is missing.
HashInput(lti) ==
    (IF lti.deployment_id = Missing THEN <<"0">> ELSE lti.deployment_id)
        \o <<"-">> \o lti.resource_link_id

\* Line 103: shake_256(text).hexdigest(8), kept as a term over its input,
\* the text behind a mark: two texts have the same digest only when they are
\* the same text.
hexdigest(text) == <<"#">> \o text

\* The truth value of a title in lines 106-110: None and '' are false.
Given(title) == title # Missing /\ title # <<>>

\* Line 113.
NoTitleAvailable ==
    <<"N", "o", " ", "t", "i", "t", "l", "e", " ", "a", "v", "a", "i", "l", "a", "b", "l", "e">>

\* Lines 106-113 as they would be if the resource link title came first.
CourseTitle_ResourceFirst(lti) ==
    IF Given(lti.resource_link_title) /\ Given(lti.context_title)
    THEN lti.resource_link_title \o <<" ", "-", " ">> \o lti.context_title
    ELSE IF Given(lti.resource_link_title) THEN lti.resource_link_title
    ELSE IF Given(lti.context_title) THEN lti.context_title
    ELSE NoTitleAvailable

\* Lines 106-113.
CourseTitle(lti) ==
    IF Given(lti.resource_link_title) /\ Given(lti.context_title)
    THEN lti.context_title \o <<" ", "-", " ">> \o lti.resource_link_title
    ELSE IF Given(lti.resource_link_title) THEN lti.resource_link_title
    ELSE IF Given(lti.context_title) THEN lti.context_title
    ELSE NoTitleAvailable

NotApostrophe(c) == c # "'"

\* str.replace('\'', '') of lines 114-115.
RemoveApostrophes(text) == SelectSeq(text, NotApostrophe)

\* Lines 97-117.  The course id is 'c-' and 16 hexadecimal digits, so that
\* course_id[0:32] is the whole course id.
make_course_id(lti) ==
    LET id == <<"c", "-">> \o hexdigest(HashInput(lti))
        course_title == CourseTitle(lti)
    IN  [course_id |-> id,
         course_title_long |->
             RemoveApostrophes(course_title \o <<" ", "(">> \o id \o <<")">>),
         course_title_short |-> RemoveApostrophes(course_title),
         grader_user |-> id]

\* make_course_id was not called.
NotMade == [course_id |-> <<>>, course_title_long |-> <<>>,
            course_title_short |-> <<>>, grader_user |-> <<>>]

DeploymentIds == {Missing, <<"0">>, <<"a">>, <<"a", "-", "b">>}

ResourceLinkIds == {<<"c">>, <<"b", "-", "c">>, <<"1">>}

ContextTitles == {Missing, <<"K">>, <<"O", "'", "K">>}

ResourceLinkTitles == {Missing, <<>>, <<"R", "'">>}

LtiStates ==
    {LtiState(d, r, rt, ct) : d \in DeploymentIds, r \in ResourceLinkIds,
                              rt \in ResourceLinkTitles, ct \in ContextTitles}

\* A request derives the course of its user from the LTI claims.
MakeCourseId(p) ==
    /\ made[p] = NotMade
    /\ made' = [made EXCEPT ![p] = make_course_id(lti_state[p])]
    /\ UNCHANGED <<storeVars, registry, response, ran, reqVars, delVars,
                   gradeVars, copyVars, localVars, archive, content, info,
                   active_paths, backed_up_paths, unique_names, fs,
                   list_groups, resolved, subset, list_response, lti_state,
                   nbgrader_config>>

InitNoIds ==
    /\ lti_state = [p \in Procs |-> LtiState(Missing, <<>>, Missing, Missing)]
    /\ made = [p \in Procs |-> NotMade]

-----------------------------------------------------------------------------
(* The patch of the title mapping (routes/courses_route.py, lines 280-299) *)

\* The text of nbgrader_config.py is a sequence of tokens: the name
\* c.NbGrader.course_titles, ' = ', the braces, quotes and separators of a
\* dict literal, course ids, and the characters of titles and of other text.
\* Positions count from 0 as in Python; -1 is find's "not found".
Mark == "c.NbGrader.course_titles"

\* str.find(tok, from): a negative start counts from the end.
Find(text, tok, from) ==
    LET n == Len(text)
        first == IF from < 0 THEN (IF n + from < 0 THEN 0 ELSE n + from) ELSE from
        hits == {i \in first..(n - 1) : text[i + 1] = tok}
    IN  IF hits = {} THEN -1
        ELSE CHOOSE i \in hits : \A j \in hits : i <= j

\* A bound of a slice: negative bounds count from the end, and bounds beyond
\* the text are cut.
SliceBound(i, n) ==
    IF i < 0 THEN (IF n + i < 0 THEN 0 ELSE n + i)
    ELSE IF i > n THEN n ELSE i

\* text[a:b].
Slice(text, a, b) ==
    SubSeq(text, SliceBound(a, Len(text)) + 1, SliceBound(b, Len(text)))

RECURSIVE ToUpdateCall(_)
\* Lines 288-289: replace('c.NbGrader.course_titles = ', 'mapping.update(')
\* and replace('}', '})').
ToUpdateCall(code) ==
    IF code = <<>> THEN <<>>
    ELSE IF Len(code) >= 2 /\ code[1] = Mark /\ code[2] = " = "
    THEN <<"mapping.update(">> \o ToUpdateCall(SubSeq(code, 3, Len(code)))
    ELSE IF code[1] = "}"
    THEN <<"}", ")">> \o ToUpdateCall(Tail(code))
    ELSE <<code[1]>> \o ToUpdateCall(Tail(code))

RECURSIVE Entries(_)
\* The entries of a dict literal, 'key': 'title' separated by ', '.
Entries(mapping) ==
    IF mapping = <<>> THEN <<>>
    ELSE <<"'", mapping[1].key, "'", ": ", "'">> \o mapping[1].title \o <<"'">>
            \o (IF Len(mapping) = 1 THEN <<>> ELSE <<", ">>)
            \o Entries(Tail(mapping))

\* str(mapping) of line 298: a dict keeps the order of insertion.
DictText(mapping) == <<"{">> \o Entries(mapping) \o <<"}">>

\* The titles of the mapping: one character, or a text with a brace.
MappedTitles == {<<"A">>, <<"B", "}">>, <<"{", "C">>}

\* The mappings of at most two courses, each course id at most once.
Mappings ==
    {<<>>}
    \cup {<<[key |-> c, title |-> t]>> : c \in CourseIds, t \in MappedTitles}
    \cup UNION {{<<[key |-> c, title |-> t], [key |-> d, title |-> u]>> :
                    d \in CourseIds \ {c},
                    t \in MappedTitles, u \in MappedTitles} : c \in CourseIds}

\* Line 291: exec(code + '\n') with mapping = {}.  The code is run when it is
\* the call mapping.update(<dict literal>) or empty; any other text of the
\* model, a literal cut inside a title, is a SyntaxError.
ExecUpdate(code) ==
    IF code = <<>> THEN [raised |-> "", mapping |-> <<>>]
    ELSE IF \E m \in Mappings : code = <<"mapping.update(">> \o DictText(m) \o <<")">>
    THEN [raised |-> "",
          mapping |-> CHOOSE m \in Mappings :
                         code = <<"mapping.update(">> \o DictText(m) \o <<")">>]
    ELSE [raised |-> "SyntaxError", mapping |-> <<>>]

\* Lines 293-294 as they would be if the mapping were emptied.
DelKey_All(mapping, cid) == <<>>

\* Lines 293-294: del mapping[course_id] when the key is there.
DelKey(mapping, cid) ==
    LET Other(e) == e.key # cid
    IN  SelectSeq(mapping, Other)

\* Lines 281-299 for the text content and the course cid: what exec raised
\* and the text that is written.
PatchOf(content_, cid) ==
    LET start == Find(content_, Mark, 0)
        end == Find(content_, "}", start)
        pre == Slice(content_, 0, start)
        code == Slice(content_, start, end + 1)
        post == Slice(content_, end + 1, Len(content_))
        done == ExecUpdate(ToUpdateCall(code))
    IN  IF done.raised # ""
        THEN [raised |-> done.raised, text |-> content_]
        ELSE [raised |-> "",
              text |-> pre \o <<Mark, " = ">>
                           \o DictText(DelKey(done.mapping, cid)) \o post]

\* A DELETE for course c has removed the account and the home directory and
\* patches the title mapping.
PatchTitles(p) ==
    /\ \E c \in CourseIds :
        LET patch == PatchOf(nbgrader_config, c)
        IN  /\ course_id' = [course_id EXCEPT ![p] = c]
            /\ nbgrader_config' = patch.text
            /\ exc' = [exc EXCEPT ![p] = patch.raised]
            /\ response' = [response EXCEPT ![p] =
                               IF patch.raised = "" THEN "" ELSE Uncaught]
            /\ course_titles' = IF patch.raised = ""
                                THEN course_titles \ {c} ELSE course_titles
    /\ UNCHANGED <<autogenerated_file, lock, pc, op, ret, save_arg, config_code,
                   pos, buf, logged, loaded, registry, ran, todo, exchange,
                   accounts, homes, restarts, gradeVars, copyVars, localVars,
                   archive, content, info, active_paths, backed_up_paths,
                   unique_names, fs, list_groups, resolved, subset,
                   list_response, idVars>>

InitNoPatch == nbgrader_config = <<>>

-----------------------------------------------------------------------------
(* SpecStore: concurrent saves and loads of the registry file *)

\* The registries the concurrent callers save: texts of three lengths.
StoreInputs ==
    {RegistryOf(<<>>), RegistryOf(<<"c-1">>), RegistryOf(<<"c-1", "c-2">>)}

InitProcs ==
    /\ lock = "free"
    /\ pc = [p \in Procs |-> "idle"]
    /\ op = [p \in Procs |-> "idle"]
    /\ ret = [p \in Procs |-> "top"]
    /\ save_arg = [p \in Procs |-> EmptyRegistry]
    /\ config_code = [p \in Procs |-> <<>>]
    /\ pos = [p \in Procs |-> 0]
    /\ buf = [p \in Procs |-> <<>>]
    /\ logged = [p \in Procs |-> ""]
    /\ exc = [p \in Procs |-> NoExc]
    /\ loaded = [p \in Procs |-> EmptyRegistry]
    /\ registry = [p \in Procs |-> EmptyRegistry]
    /\ response = [p \in Procs |-> ""]
    /\ ran = [p \in Procs |-> <<>>]
    /\ course_id = [p \in Procs |-> ""]
    /\ todo = [p \in Procs |-> <<>>]
    /\ user_name = [p \in Procs |-> ""]
    /\ dst = [p \in Procs |-> ""]

\* No listing was asked for.
InitNoListing ==
    /\ content = ""
    /\ info = [g \in Graders |-> NoInfo]
    /\ active_paths = <<>>
    /\ backed_up_paths = <<>>
    /\ unique_names = Pending
    /\ fs = {}
    /\ list_groups = <<>>
    /\ resolved = {}
    /\ subset = ""
    /\ list_response = NoResponse
    /\ InitNoIds
    /\ InitNoPatch

\* Every course has its exchange directory, grader account, home directory,
\* title, a gradebook with an enrolled student and the four working
\* directories; the hub was asked for nothing yet and nothing was copied.
InitWorld ==
    /\ exchange = CourseIds
    /\ accounts = CourseIds
    /\ homes = CourseIds
    /\ course_titles = CourseIds
    /\ restarts = {}
    /\ students = [c \in CourseIds |-> {"s1"}]
    /\ group_requests = {}
    /\ gradebook_db = CourseIds
    /\ course_data = [c \in CourseIds |-> Range(Directories)]
    /\ trees = {}
    /\ owned = {}
    /\ archive = [t \in BackupTrees |-> "absent"]

InitCourses == InitWorld /\ InitNoListing

\* The file is absent, or it holds a registry saved earlier.
InitStore ==
    /\ autogenerated_file \in
          {NoFile} \cup {File(TRUE, SerializeRegistry(x), m) :
                            x \in StoreInputs, m \in {"600", "400", "000"}}
    /\ InitProcs
    /\ InitCourses

NextStore ==
    \E p \in Procs :
        \/ StartSave(p, StoreInputs)
        \/ StartLoad(p)
        \/ StoreStep(p)
        \/ Finish(p)

SpecStore == InitStore /\ [][NextStore]_vars

-----------------------------------------------------------------------------
(* One worker that handles one save or load after the other *)

InitLoad == InitStore

NextLoad ==
    \/ StartSave("p1", StoreInputs)
    \/ StartLoad("p1")
    \/ StoreStep("p1")
    \/ Finish("p1")

SpecLoad == InitLoad /\ [][NextLoad]_vars

-----------------------------------------------------------------------------
(* SpecReset: PATCH requests, one after the other *)

InitReset ==
    /\ autogenerated_file = File(TRUE, SerializeRegistry(RegistryOf(<<"c-1", "c-2">>)), "600")
    /\ InitProcs
    /\ InitCourses

NextReset ==
    \/ StartReset("p1")
    \/ ResetStep("p1")
    \/ Finish("p1")

SpecReset == InitReset /\ [][NextReset]_vars

-----------------------------------------------------------------------------
(* SpecCopy: POST /assignments and POST /courses, one after the other *)

\* The destination has no source directory yet, or it has one with an
\* assignment, both owned by the grader account of the destination course.
InitCopy ==
    /\ autogenerated_file = File(TRUE, SerializeRegistry(RegistryOf(<<"c-1", "c-2">>)), "600")
    /\ InitProcs
    /\ InitNoListing
    /\ exchange = CourseIds
    /\ accounts = CourseIds
    /\ homes = CourseIds
    /\ course_titles = CourseIds
    /\ restarts = {}
    /\ students = [c \in CourseIds |-> {"s1"}]
    /\ group_requests = {}
    /\ gradebook_db = CourseIds
    /\ course_data = [c \in CourseIds |-> Range(Directories)]
    /\ trees \in {{}, {"dst", "dst/old"}}
    /\ owned = trees
    /\ archive = [t \in BackupTrees |-> "absent"]

NextCopy ==
    \/ StartCopyAssignment("p1")
    \/ StartCopyCourse("p1")
    \/ CopyStep("p1")
    \/ Finish("p1")

SpecCopy == InitCopy /\ [][NextCopy]_vars

-----------------------------------------------------------------------------
(* SpecBackup: PUT /courses, one request after the other *)

InitBackup == InitReset

NextBackup ==
    \/ StartBackup("p1")
    \/ BackupStep("p1")
    \/ Finish("p1")

SpecBackup == InitBackup /\ [][NextBackup]_vars

\* Backups of two requests at once: each draws its user and the time of its
\* line 122, and their commands interleave.  The name of the course is the
\* same in both.
NextBackupConcurrent ==
    \E p \in Procs :
        \/ StartBackup(p)
        \/ BackupStep(p)

SpecBackupConcurrent == InitBackup /\ [][NextBackupConcurrent]_vars

-----------------------------------------------------------------------------
(* SpecNames: generate_unique_names on the lists the resolvers can return *)

InitNames ==
    /\ autogenerated_file = File(TRUE, SerializeRegistry(RegistryOf(<<"c-1", "c-2">>)), "600")
    /\ InitProcs
    /\ InitWorld
    /\ content \in Contents
    /\ info \in [Graders -> Titles \cup {NoInfo}]
    /\ active_paths \in {Sorted(s) : s \in SUBSET ActivePathsOf(content)}
    /\ backed_up_paths \in {Sorted(s) : s \in SUBSET BackedUpPathsOf(content)}
    /\ unique_names = Pending
    /\ fs = {}
    /\ list_groups = <<>>
    /\ resolved = {"active", "backed_up"}
    /\ subset = ""
    /\ list_response = NoResponse
    /\ InitNoIds
    /\ InitNoPatch

NextNames == GenerateNames

SpecNames == InitNames /\ [][NextNames]_vars

-----------------------------------------------------------------------------
(* SpecPaths: the two resolvers on the file systems made of the leaves *)

InitPaths ==
    /\ autogenerated_file = File(TRUE, SerializeRegistry(RegistryOf(<<"c-1", "c-2">>)), "600")
    /\ InitProcs
    /\ InitWorld
    /\ content \in Contents
    /\ info = [g \in Graders |-> NoInfo]
    /\ fs \in {a \cup b : a \in SUBSET ActiveLeaves, b \in SUBSET BackedUpLeaves}
    /\ list_groups \in ListGroups
    /\ active_paths = <<>>
    /\ backed_up_paths = <<>>
    /\ unique_names = Pending
    /\ resolved = {}
    /\ subset = ""
    /\ list_response = NoResponse
    /\ InitNoIds
    /\ InitNoPatch

NextPaths == ResolveActive \/ ResolveBackedUp

SpecPaths == InitPaths /\ [][NextPaths]_vars

-----------------------------------------------------------------------------
(* A listing request over a file system of active and backed up content *)

\* The info.json files a listing meets: all readable with distinct titles,
\* or the one of c-1 missing.
ListInfos ==
    {[g \in Graders |-> <<"F", g[3]>>],
     [g \in Graders |-> IF g = <<"c", "-", "1">> THEN NoInfo ELSE <<"F", g[3]>>]}

InitList ==
    /\ autogenerated_file = File(TRUE, SerializeRegistry(RegistryOf(<<"c-1", "c-2">>)), "600")
    /\ InitProcs
    /\ InitWorld
    /\ content \in Contents
    /\ info \in ListInfos
    /\ fs \in {a \cup b : a \in SUBSET ActiveLeaves, b \in SUBSET BackedUpLeaves}
    /\ list_groups \in ListGroups
    /\ subset \in Subsets
    /\ active_paths = <<>>
    /\ backed_up_paths = <<>>
    /\ unique_names = Pending
    /\ resolved = {}
    /\ list_response = NoResponse
    /\ InitNoIds
    /\ InitNoPatch

NextList == GetList

SpecList == InitList /\ [][NextList]_vars

-----------------------------------------------------------------------------
(* Two requests derive their courses, in either order *)

InitIds ==
    /\ autogenerated_file = File(TRUE, SerializeRegistry(RegistryOf(<<"c-1", "c-2">>)), "600")
    /\ InitProcs
    /\ InitWorld
    /\ content = ""
    /\ info = [g \in Graders |-> NoInfo]
    /\ active_paths = <<>>
    /\ backed_up_paths = <<>>
    /\ unique_names = Pending
    /\ fs = {}
    /\ list_groups = <<>>
    /\ resolved = {}
    /\ subset = ""
    /\ list_response = NoResponse
    /\ lti_state \in [Procs -> LtiStates]
    /\ made = [p \in Procs |-> NotMade]
    /\ InitNoPatch

NextIds == \E p \in Procs : MakeCourseId(p)

SpecIds == InitIds /\ [][NextIds]_vars

-----------------------------------------------------------------------------
(* DELETE requests patch the title mapping, one after the other *)

\* Text before and after the mapping; both hold braces of their own.
TextsBefore == {<<>>, <<"c.A = ", "{", "}", "\n">>}

TextsAfter == {<<>>, <<"\n", "c.B = ", "{", "}", "\n">>}

Keys(mapping) == {mapping[i].key : i \in DOMAIN mapping}

\* The file holds the mapping that the creation of the courses wrote.
InitTitles ==
    /\ autogenerated_file = File(TRUE, SerializeRegistry(RegistryOf(<<"c-1", "c-2">>)), "600")
    /\ InitProcs
    /\ content = ""
    /\ info = [g \in Graders |-> NoInfo]
    /\ active_paths = <<>>
    /\ backed_up_paths = <<>>
    /\ unique_names = Pending
    /\ fs = {}
    /\ list_groups = <<>>
    /\ resolved = {}
    /\ subset = ""
    /\ list_response = NoResponse
    /\ InitNoIds
    /\ \E m \in Mappings :
        /\ nbgrader_config \in
              {a \o <<Mark, " = ">> \o DictText(m) \o b :
                  a \in TextsBefore, b \in TextsAfter}
        /\ course_titles = Keys(m)
    /\ exchange = CourseIds
    /\ accounts = CourseIds
    /\ homes = CourseIds
    /\ restarts = {}
    /\ students = [c \in CourseIds |-> {"s1"}]
    /\ group_requests = {}
    /\ gradebook_db = CourseIds
    /\ course_data = [c \in CourseIds |-> Range(Directories)]
    /\ trees = {}
    /\ owned = {}
    /\ archive = [t \in BackupTrees |-> "absent"]

NextTitles == PatchTitles("p1")

SpecTitles == InitTitles /\ [][NextTitles]_vars

-----------------------------------------------------------------------------
(* SpecRoundTrip: one caller saves a registry value and loads it again *)

MaxRoles == 2

\* Names of services: a course id, and a name that holds text which
\* read_autogenerated_config rewrites.
RoundTripNames == {"c-1", "c.JupyterHub.services"}

RoundTripInputs ==
    {Registry(s, r, g) :
        s \in SeqUpTo({[name |-> n] : n \in RoundTripNames}, MaxServices),
        r \in SeqUpTo({[name |-> RoleName("c-1"), services |-> <<>>],
                       [name |-> ServiceRoleName, services |-> <<"c-1">>]}, MaxRoles),
        g \in UNION {[D -> {<<>>, <<"u1">>}] :
                        D \in SUBSET {GroupName("c-1"), GroupName("c-2")}}}

\* The save has put its text into the file (it did not end in the
\* PermissionError handler of line 221).
Wrote(p) == logged[p] # "Autogenerated services files not readable!"

\* The caller of a save that has returned calls read_autogenerated_config on
\* the same path.
ThenLoad(p) ==
    /\ pc[p] = "done"
    /\ op[p] = "save"
    /\ exc[p] = NoExc
    /\ Wrote(p)
    /\ op' = [op EXCEPT ![p] = "save_load"]
    /\ pc' = [pc EXCEPT ![p] = "r_open"]
    /\ UNCHANGED <<autogenerated_file, lock, ret, save_arg, config_code, pos, buf,
                   logged, exc, loaded, registry, response, ran, lifeVars>>

InitRoundTrip ==
    /\ autogenerated_file \in
          {NoFile} \cup {File(TRUE, SerializeRegistry(x), m) :
                            x \in StoreInputs, m \in {"600", "400", "000"}}
    /\ InitProcs
    /\ InitCourses

NextRoundTrip ==
    \/ StartSave("p1", RoundTripInputs)
    \/ ThenLoad("p1")
    \/ StartLoad("p1")
    \/ StoreStep("p1")

SpecRoundTrip == InitRoundTrip /\ [][NextRoundTrip]_vars

-----------------------------------------------------------------------------
(* SpecDelete: concurrent DELETE requests *)

\* All orders of the elements of a sequence.
Orders(s) ==
    {[i \in DOMAIN s |-> s[f[i]]] :
        f \in {g \in [DOMAIN s -> DOMAIN s] : \A i, j \in DOMAIN s : g[i] = g[j] => i = j}}

\* The registries a DELETE may find: of no, one or two courses, the roles in
\* any order, every group with one member or with none.
DeleteRegistries ==
    UNION {{Registry(RegistryOf(ids).services, r, g) :
                r \in Orders(RegistryOf(ids).roles),
                g \in [DOMAIN RegistryOf(ids).groups -> {<<>>, <<"u1">>}]} :
           ids \in {<<>>, <<"c-1">>, <<"c-1", "c-2">>}}

InitDelete ==
    /\ autogenerated_file \in
          {NoFile}
          \cup {File(TRUE, SerializeRegistry(x), "600") : x \in DeleteRegistries}
          \cup {File(TRUE, SerializeRegistry(RegistryOf(<<"c-1", "c-2">>)), m) :
                   m \in {"400", "000"}}
    /\ InitProcs
    /\ InitCourses

\* One worker answers one DELETE request after the other.
NextDelete ==
    \/ StartDelete("p1")
    \/ StoreStep("p1")
    \/ DeleteStep("p1")
    \/ Finish("p1")

SpecDelete == InitDelete /\ [][NextDelete]_vars

\* One worker answers one DELETE request after the other; both courses are
\* registered at the start, so that only a DELETE takes a course out of the
\* registry.
InitDeleteRetry ==
    /\ autogenerated_file \in
          {File(TRUE, SerializeRegistry(RegistryOf(<<"c-1", "c-2">>)), m) :
              m \in {"600", "000"}}
    /\ InitProcs
    /\ InitCourses

SpecDeleteRetry == InitDeleteRetry /\ [][NextDelete]_vars

-----------------------------------------------------------------------------
(* SpecDeleteConcurrent: two DELETE requests are answered at the same time *)

InitDeleteConcurrent ==
    /\ autogenerated_file \in
          {NoFile,
           File(TRUE, SerializeRegistry(RegistryOf(<<"c-1", "c-2">>)), "600"),
           File(TRUE, SerializeRegistry(RegistryOf(<<"c-1">>)), "600"),
           File(TRUE, SerializeRegistry(RegistryOf(<<"c-1", "c-2">>)), "000")}
    /\ InitProcs
    /\ InitCourses

NextDeleteConcurrent ==
    \E p \in Procs :
        \/ StartDelete(p)
        \/ StoreStep(p)
        \/ DeleteStep(p)

SpecDeleteConcurrent == InitDeleteConcurrent /\ [][NextDeleteConcurrent]_vars

-----------------------------------------------------------------------------
(* Claims about the registry store *)

\* C1: when two callers have each finished a save of the same registry file,
\* whatever the interleaving of their open/truncate, lock, write, unlock and
\* close/flush steps was, the file holds exactly the complete text that one of
\* the two composed.
C1_ConcurrentSavesLeaveOneSerialization ==
    (\A p \in Procs : op[p] = "save" /\ pc[p] = "done" /\ Wrote(p))
        => autogenerated_file.text \in {SerializeRegistry(save_arg[p]) : p \in Procs}

\* C2: the registry file is never observed half written: the text that a load
\* reads from the file, also while a save is under way, is a syntactically
\* complete registry (not empty, not truncated, not partially written).
C2_LoadNeverReadsPartialFile ==
    \A p \in Procs :
        (pc[p] = "r_exec" /\ logged[p] = "Reading autogenerated service configuration.")
            => IsCompleteUnit(config_code[p])

\* C4: registry round trip: a save of x that wrote the file, followed by a
\* load with no writer in between, returns a triple equal to x.
C4_RoundTrip ==
    (op["p1"] = "save_load" /\ pc["p1"] = "done" /\ exc["p1"] = NoExc)
        => loaded["p1"] = save_arg["p1"]

-----------------------------------------------------------------------------
(* Claims about DELETE *)

\* The registry that a load of the file as it is now returns.
Persisted == Parse(autogenerated_file.text)

\* The registry has a group, role or service entry of the course.
HasEntry(r, cid) ==
    \/ GroupName(cid) \in DOMAIN r.groups
    \/ \E i \in DOMAIN r.roles : r.roles[i].name = RoleName(cid)
    \/ \E i \in DOMAIN r.services : r.services[i].name = cid

\* The registry refers to the course: by an entry of the course, or in the
\* services list of the shared service role.
RefersTo(r, cid) ==
    \/ HasEntry(r, cid)
    \/ \E i \in DOMAIN r.roles :
          r.roles[i].name = ServiceRoleName /\ cid \in Range(r.roles[i].services)

Attempted(p, act) == \E i \in DOMAIN ran[p] : ran[p][i].act = act

\* C3: two DELETE requests for two different courses that ran concurrently
\* and both report success leave a registry with neither course's group, role
\* or service entry.
C3_ConcurrentDeletesLoseNoUpdate ==
    ( /\ course_id["p1"] # course_id["p2"]
      /\ \A p \in Procs : op[p] = "delete" /\ pc[p] = "done" /\ response[p] = "200" )
        => \A p \in Procs : ~HasEntry(Persisted, course_id[p])

\* What the registry store does to repair the registry file during a load:
\* nothing; chmod 600 of an unreadable file; creation of an absent file
\* followed by chmod 600.
RegistryRepairs ==
    { <<>>,
      <<Ran("chmod registry", TRUE)>>,
      <<Ran("open_w registry", TRUE), Ran("chmod registry", TRUE)>> }

\* C5 as claimed: a DELETE that answers GroupNotFoundError has performed no
\* filesystem mutation at all, the registry file included, also when the
\* registry file did not exist before the request.
C5_NotFoundMutatesNothing ==
    \A p \in Procs : response[p] = "GroupNotFoundError" => ran[p] = <<>>

\* C5 as amended: a DELETE of a course whose group key is absent from the
\* loaded registry answers GroupNotFoundError, and a DELETE that answers
\* GroupNotFoundError has created, rewritten or removed nothing and changed
\* no permissions, except for the repair of the registry file by the load:
\* an absent file is created and an unreadable one gets chmod 600.
C5_NotFoundOnlyRepairsRegistryFile ==
    \A p \in Procs :
        /\ ( /\ op[p] = "delete" /\ pc[p] = "done" /\ exc[p] = NoExc
             /\ GroupName(course_id[p]) \notin DOMAIN loaded[p].groups )
              => response[p] = "GroupNotFoundError"
        /\ response[p] = "GroupNotFoundError"
              => /\ ran[p] \in RegistryRepairs
                 /\ pc[p] = "done"

\* C5 witness: a DELETE of a course whose group is absent was answered
\* GroupNotFoundError after the load had created the absent registry file.
C5_Witness ==
    \E p \in Procs :
        /\ response[p] = "GroupNotFoundError"
        /\ GroupName(course_id[p]) \notin DOMAIN loaded[p].groups
        /\ ran[p] = <<Ran("open_w registry", TRUE), Ran("chmod registry", TRUE)>>

\* C6: whenever the removal of the grader account has been attempted, the
\* persisted registry has no group, role or service entry of the course and
\* the exchange directory of the course is gone.
C6_RegistryAndExchangeBeforeAccount ==
    \A p \in Procs :
        (op[p] = "delete" /\ Attempted(p, "userdel"))
            => /\ ~HasEntry(Persisted, course_id[p])
               /\ course_id[p] \notin exchange

\* C7: when a DELETE has begun to load the registry, every enrolled student
\* has been removed from the grading store of the course and the removal of
\* the members of the hub group nbgrader-<course_id> has been requested.
C7_ResetEffectsBeforeRegistry ==
    \A p \in Procs :
        (op[p] = "delete" /\ pc[p] \notin {"idle", "r_open"})
            => /\ students[course_id[p]] = {}
               /\ course_id[p] \in group_requests

\* C8: after a DELETE that reports success (and whose save wrote the file),
\* the persisted registry does not refer to the course: no group, no role,
\* no service, no entry in the services list of the shared service role.
C8_SuccessfulDeleteLeavesNoReference ==
    \A p \in Procs :
        (op[p] = "delete" /\ response[p] = "200" /\ Wrote(p))
            => ~RefersTo(Persisted, course_id[p])

-----------------------------------------------------------------------------
(* Claims about PATCH *)

\* C9: in a Reset a step that failed is the last step that ran, and the
\* request has ended with a failure response: no later step of the sequence
\* (students, group members, exchange, gradebook file, the four working
\* directories) was executed after it.
C9_FailureStopsReset ==
    \A p \in Procs :
        op[p] = "reset"
            => \A i \in DOMAIN ran[p] :
                  ~ran[p][i].ok
                      => /\ i = Len(ran[p])
                         /\ pc[p] = "done"
                         /\ response[p] \notin {"", "200"}

-----------------------------------------------------------------------------
(* Claims about the copy-in requests *)

CopyOps == {"copy_assignment", "copy_course"}

Acts(p) == [i \in DOMAIN ran[p] |-> ran[p][i].act]

IsPrefix(s, t) == Len(s) <= Len(t) /\ \A i \in DOMAIN s : s[i] = t[i]

\* The actions of a course copy-in come in the order of the code: the mkdir
\* first if it is run at all, then for every assignment its cp followed by
\* its chown, the cp of the next assignment only after that chown.
CourseInOrder(p) ==
    \A i \in DOMAIN ran[p] :
        LET a == ran[p][i].act
        IN  /\ a = "mkdir source" => i = 1
            /\ \A x \in Assignments :
                  /\ a = "chown " \o x => i > 1 /\ ran[p][i - 1].act = "cp " \o x
                  /\ (a = "cp " \o x /\ i > 1)
                        => \/ i = 2 /\ ran[p][1].act = "mkdir source"
                           \/ \E y \in Assignments \ {x} :
                                 ran[p][i - 1].act = "chown " \o y

\* C10 (states): in a copy-in the actions run in the order of the code, an
\* action that failed is the last one that ran and the response is the
\* failure CalledProcessError; the response is a success only if every
\* action of the request ran and succeeded.
C10_CopyInAborts ==
    \A p \in Procs :
        op[p] \in CopyOps
            => /\ \A i \in DOMAIN ran[p] :
                     ~ran[p][i].ok
                         => /\ i = Len(ran[p])
                            /\ pc[p] = "done"
                            /\ response[p] = "CalledProcessError"
               /\ op[p] = "copy_assignment"
                     => IsPrefix(Acts(p), <<"cp", "mkdir", "mv", "chown">>)
               /\ op[p] = "copy_course" => CourseInOrder(p)
               /\ response[p] = "200"
                     => /\ \A i \in DOMAIN ran[p] : ran[p][i].ok
                        /\ op[p] = "copy_assignment" => Len(ran[p]) = 4
                        /\ op[p] = "copy_course" => todo[p] = <<>>

\* C10 (steps): the step that ends a copy-in with a failure removes no tree
\* and takes no ownership back.
C10_NothingRolledBack ==
    \A p \in Procs :
        (op[p] \in CopyOps /\ response[p] = "" /\ response'[p] \notin {"", "200"})
            => trees \subseteq trees' /\ owned \subseteq owned'

\* C10: in an assignment or course copy-in the external actions run strictly
\* in sequence, the first one that fails aborts the request with a failure
\* response and no later action, nothing made so far is rolled back, and a
\* success response is given only if every action succeeded.
C10_CopyInSequence == []C10_CopyInAborts /\ [][C10_NothingRolledBack]_vars

\* C10 witness: an assignment copy-in whose mv failed after cp and mkdir had
\* succeeded: the request has ended with CalledProcessError, chown never ran
\* and the copied tree and the destination directory are still there.
C10_Witness ==
    \E p \in Procs :
        /\ op[p] = "copy_assignment"
        /\ response[p] = "CalledProcessError"
        /\ Acts(p) = <<"cp", "mkdir", "mv">>
        /\ ran[p][1].ok /\ ran[p][2].ok /\ ~ran[p][3].ok
        /\ {"tmp", "dst"} \subseteq trees

-----------------------------------------------------------------------------
(* Claims about PUT *)

\* C11: in a Backup the ownership change is attempted only after the copy
\* succeeded, it names the requesting user (never another account), a failed
\* action is the last one, and a success response implies that the backup
\* tree exists and belongs to the requesting user.
C11_BackupOwnedByRequester ==
    \A p \in Procs :
        op[p] = "backup"
            => /\ IsPrefix(Acts(p), <<"cp", "chown " \o user_name[p]>>)
               /\ \A i \in DOMAIN ran[p] :
                     ~ran[p][i].ok => i = Len(ran[p]) /\ response[p] = "CalledProcessError"
               /\ response[p] = "200"
                     => /\ Len(ran[p]) = 2
                        /\ archive[dst[p]] = user_name[p]

\* C11 witness: a Backup has answered success after cp and chown, and the
\* tree at its destination belongs to the requesting user.
C11_Witness ==
    \E p \in Procs :
        /\ op[p] = "backup" /\ response[p] = "200"
        /\ Acts(p) = <<"cp", "chown " \o user_name[p]>>
        /\ archive[dst[p]] = user_name[p]

-----------------------------------------------------------------------------
(* Claims about generate_unique_names *)

\* generate_unique_names was called.
Called == unique_names # Pending

\* Every info.json the call reads can be read.
InfoReadable == \A i \in DOMAIN active_paths : info[active_paths[i][3]] # NoInfo

\* The labels built from the active and from the backed up paths.
ActiveLabels ==
    [i \in DOMAIN active_paths |-> ActiveName(content, active_paths[i], info)]

BackedUpLabels ==
    [i \in DOMAIN backed_up_paths |-> BackedUpName(content, backed_up_paths[i])]

Labels == ActiveLabels \o BackedUpLabels

\* The suffix ' (k)'.
Suffix(k) == <<" ", "(", <<"1", "2", "3">>[k], ")">>

\* C12: the call returns a list as long as active_paths followed by
\* backed_up_paths, and the name at position i is built from the label of
\* the path at position i (the label, or the label with an index suffix),
\* also when labels occur twice.
C12_NamesFollowPaths ==
    (Called /\ InfoReadable)
        => /\ unique_names.raised = ""
           /\ Len(unique_names.names) = Len(Labels)
           /\ \A i \in DOMAIN Labels :
                 IsPrefix(ReplaceUnderscores(Labels[i]), unique_names.names[i])

\* C13: the names a call returns are pairwise different.
C13_NamesPairwiseDistinct ==
    (Called /\ unique_names.raised = "")
        => ~HasDuplicate(unique_names.names)

\* C14: a label that occurs n > 1 times among the active paths is emitted
\* once without suffix and then with the suffixes ' (1)' ... ' (n-1)' among
\* the first Len(active_paths) names.
C14_DuplicatesAreNumbered ==
    (Called /\ InfoReadable /\ HasDuplicate(ActiveLabels))
        => /\ unique_names.raised = ""
           /\ \A i \in DOMAIN ActiveLabels :
                 LET l == ReplaceUnderscores(ActiveLabels[i])
                     n == Cardinality({j \in DOMAIN ActiveLabels :
                                          ActiveLabels[j] = ActiveLabels[i]})
                     emitted == {unique_names.names[j] : j \in DOMAIN ActiveLabels}
                 IN  /\ l \in emitted
                     /\ \A k \in 1..(n - 1) : l \o Suffix(k) \in emitted

\* C15: when no label occurs twice among the active paths and none occurs
\* twice among the backed up paths, the call returns the labels in the order
\* of the paths, every underscore replaced by a space and nothing else
\* changed.
C15_NoDuplicatesOnlySanitizes ==
    (Called /\ InfoReadable /\ ~HasDuplicate(ActiveLabels)
            /\ ~HasDuplicate(BackedUpLabels))
        => /\ unique_names.raised = ""
           /\ unique_names.names =
                 [i \in DOMAIN Labels |->
                     [k \in DOMAIN Labels[i] |->
                         IF Labels[i][k] = "_" THEN " " ELSE Labels[i][k]]]

\* C15 witness: a call without a duplicate label has returned the names of
\* two active and two backed up paths, one of the labels had an underscore.
C15_Witness ==
    /\ Called /\ InfoReadable
    /\ ~HasDuplicate(ActiveLabels) /\ ~HasDuplicate(BackedUpLabels)
    /\ Len(active_paths) = 2 /\ Len(backed_up_paths) = 2
    /\ \E i \in DOMAIN Labels : "_" \in Range(Labels[i])
    /\ Len(unique_names.names) = 4

-----------------------------------------------------------------------------
(* Claims about the path resolver *)

\* C16: no path that get_active_paths or get_backed_up_paths returned has a
\* component whose name begins with a dot.
C16_NoHiddenComponent ==
    \A i \in DOMAIN (active_paths \o backed_up_paths) :
        LET path == (active_paths \o backed_up_paths)[i]
        IN  \A k \in DOMAIN path : ~Hidden(path[k])

-----------------------------------------------------------------------------
(* Claims about the failures of the registry store *)

\* C17: a load that found the registry file unreadable and whose chmod 600
\* command failed ends with AutogeneratedFileError and with no other
\* exception.
C17_ChmodFailureIsStoreError ==
    \A p \in Procs :
        (op[p] = "load" /\ pc[p] = "done"
            /\ ran[p] = <<Ran("chmod registry", FALSE)>>)
        => exc[p] = "AutogeneratedFileError"

\* The save of process p has ended and its last command, chmod 600 on the
\* registry file, failed.
SaveChmodFailed(p) ==
    /\ op[p] = "save" /\ pc[p] = "done"
    /\ ran[p] # <<>>
    /\ ran[p][Len(ran[p])] = Ran("chmod registry", FALSE)

\* C18 as stated: a save whose data write succeeded and whose chmod 600
\* failed returns normally, without raising.
C18_FailedChmodReturnsNormally ==
    \A p \in Procs : SaveChmodFailed(p) => exc[p] = NoExc

C18_SaveRaises ==
    \A p \in Procs : SaveChmodFailed(p) => exc[p] = "AutogeneratedFileError"

C18_ContentStays ==
    \A p \in Procs :
        (pc[p] = "w_chmod" /\ pc'[p] = "done")
        => /\ autogenerated_file'.exists
           /\ autogenerated_file'.text = autogenerated_file.text

\* C18 amended: a save whose data write succeeded and whose chmod 600 failed
\* raises AutogeneratedFileError; the step that raises leaves the written
\* content of the file on disk.
C18_FailedChmodRaisesContentStays ==
    []C18_SaveRaises /\ [][C18_ContentStays]_vars

\* C18 witness: a save wrote its text, its chmod failed, the call raised
\* AutogeneratedFileError and the file holds the text that was written.
C18_Witness ==
    \E p \in Procs :
        /\ SaveChmodFailed(p)
        /\ exc[p] = "AutogeneratedFileError"
        /\ save_arg[p] # EmptyRegistry
        /\ autogenerated_file.exists
        /\ autogenerated_file.text = SerializeRegistry(save_arg[p])

\* The load of process p found no file (line 140) and has returned.
LoadedAbsentFile(p) ==
    /\ op[p] = "load" /\ pc[p] = "done" /\ exc[p] = NoExc
    /\ logged[p] = "Writing autogenerated service configuration."

\* What a load that starts in this state returns: the file is there, can be
\* read, its text is executed without an exception and gives the triple x.
NextLoadReturns(x) ==
    /\ autogenerated_file.exists
    /\ Readable(autogenerated_file)
    /\ ~ExecRaises(Rewrite(autogenerated_file.text))
    /\ Parse(autogenerated_file.text) = x

-----------------------------------------------------------------------------
(* Claims about repeating a DELETE *)

\* C20: a DELETE that failed after the registry was rewritten can be issued
\* again and then executes the remaining steps: a DELETE of a course that was
\* registered is answered with GroupNotFoundError only if neither the account
\* nor the home directory of the course is left to remove.
C20_RetryExecutesRemainingSteps ==
    \A p \in Procs :
        (op[p] = "delete" /\ pc[p] = "done"
            /\ response[p] = "GroupNotFoundError")
        => /\ course_id[p] \notin accounts
           /\ course_id[p] \notin homes

-----------------------------------------------------------------------------
(* Claims about the responses *)

\* C21: no request ends with an exception that no handler of the route
\* caught: every failure is answered with a response that names an error
\* kind.
C21_EveryFailureIsStructured ==
    \A p \in Procs : response[p] # Uncaught

-----------------------------------------------------------------------------
(* Claims about the listing *)

\* C22: a listing with the subset 'all' returns every active path followed
\* by every backed up path of the user, with one name per path, whatever
\* active and backed up content there is.
C22_AllListsEveryPath ==
    (list_response # NoResponse /\ subset = "ALL")
    => /\ list_response.status = "200"
       /\ list_response.paths =
             get_active_paths(ListUser, list_groups, content, fs)
                \o get_backed_up_paths(ListUser, content, fs)
       /\ Len(list_response.names) = Len(list_response.paths)

-----------------------------------------------------------------------------
(* Claims about make_course_id *)

\* The deployment and the resource link of the request of process p.
PairOf(p) == <<lti_state[p].deployment_id, lti_state[p].resource_link_id>>

\* C23: two requests with different (deployment_id, resource_link_id) pairs
\* never get the same hashed text, and so, the digest being injective, never
\* the same course id.
C23_DistinctPairsDistinctIds ==
    \A p, q \in Procs :
        (made[p] # NotMade /\ made[q] # NotMade /\ PairOf(p) # PairOf(q))
        => made[p].course_id # made[q].course_id

\* C24: make_course_id is deterministic: two calls with the same
\* deployment_id and the same resource link id return the same course id and
\* the same grader account, whatever the titles are and whichever call came
\* first.
C24_SamePairSameCourse ==
    \A p, q \in Procs :
        (made[p] # NotMade /\ made[q] # NotMade /\ PairOf(p) = PairOf(q))
        => /\ made[p].course_id = made[q].course_id
           /\ made[p].grader_user = made[q].grader_user

\* C24 witness: two calls with the same pair and different context titles
\* have returned one course id.
C24_Witness ==
    /\ made["p1"] # NotMade /\ made["p2"] # NotMade
    /\ PairOf("p1") = PairOf("p2")
    /\ lti_state["p1"].context_title # lti_state["p2"].context_title
    /\ made["p1"].course_id = made["p2"].course_id
    /\ made["p1"].course_title_short # made["p2"].course_title_short

\* C25: with a context title and a resource link title the short title is
\* '<context> - <resource_link>', with one of them it is that one, with none
\* it is 'No title available', each without its apostrophes; no returned
\* title holds an apostrophe.
C25_TitlePrecedence ==
    \A p \in Procs :
        made[p] # NotMade
        => LET ct == lti_state[p].context_title
               rt == lti_state[p].resource_link_title
               short == made[p].course_title_short
               long == made[p].course_title_long
           IN  /\ (Given(ct) /\ Given(rt))
                     => short = RemoveApostrophes(ct \o <<" ", "-", " ">> \o rt)
               /\ (Given(ct) /\ ~Given(rt)) => short = RemoveApostrophes(ct)
               /\ (~Given(ct) /\ Given(rt)) => short = RemoveApostrophes(rt)
               /\ (~Given(ct) /\ ~Given(rt)) => short = NoTitleAvailable
               /\ \A k \in DOMAIN short : short[k] # "'"
               /\ \A k \in DOMAIN long : long[k] # "'"

\* C25 witness: a call with both titles, each with an apostrophe, has
\* returned the short title 'OK - R'.
C25_Witness ==
    /\ lti_state["p1"].context_title = <<"O", "'", "K">>
    /\ lti_state["p1"].resource_link_title = <<"R", "'">>
    /\ made["p1"] # NotMade
    /\ made["p1"].course_title_short = <<"O", "K", " ", "-", " ", "R">>

-----------------------------------------------------------------------------
(* Claims about the steps of DELETE *)

\* C26: a DELETE answers GroupNotFoundError only when the key
\* formgrade-<course_id> is absent from the groups of the loaded registry; a
\* group that is present with no member is not rejected.
C26_NotFoundOnlyForAbsentKey ==
    \A p \in Procs :
        (op[p] = "delete" /\ response[p] = "GroupNotFoundError")
        => GroupName(course_id[p]) \notin DOMAIN loaded[p].groups

\* The DELETE of process p has written the registry without its course.
Rewrote(p) ==
    /\ op[p] = "delete"
    /\ ~GroupMissing(loaded[p].groups, course_id[p])
    /\ Attempted(p, "open_w registry")

\* C27: a DELETE that has rewritten the registry file has asked for the
\* restart of the hub when it is answered, whichever of its later steps
\* failed.
C27_RestartAfterEveryRewrite ==
    \A p \in Procs :
        (Rewrote(p) /\ pc[p] = "done") => Attempted(p, "restart")

\* The registry r without the entries of course cid: its group, its role,
\* its service and its name in the services of the shared service role; the
\* other services and roles in their order.
WithoutCourse(r, cid) ==
    LET OtherService(x) == x.name # cid
        OtherRole(x) == x.name # RoleName(cid)
        OtherName(x) == x # cid
        kept == SelectSeq(r.roles, OtherRole)
    IN  Registry(SelectSeq(r.services, OtherService),
                 [k \in DOMAIN kept |->
                     IF kept[k].name = ServiceRoleName
                     THEN [kept[k] EXCEPT !.services = SelectSeq(@, OtherName)]
                     ELSE kept[k]],
                 [g \in DOMAIN r.groups \ {GroupName(cid)} |-> r.groups[g]])

\* C28: the registry that a DELETE of course X writes back is the loaded one
\* without X's group, X's role, X's service and X's name in the services of
\* the shared service role; every other entry is unchanged and in its place.
C28_DeleteLeavesOtherEntries ==
    \A p \in Procs :
        Rewrote(p) => registry[p] = WithoutCourse(loaded[p], course_id[p])

-----------------------------------------------------------------------------
(* Claims about the patch of the title mapping *)

\* The mapping without the entry of course cid, the others in their order.
WithoutKey(mapping, cid) ==
    LET Kept(e) == e.key # cid
    IN  SelectSeq(mapping, Kept)

\* The text of a file with the mapping between two texts.
FileWith(before, mapping, after) ==
    before \o <<Mark, " = ">> \o DictText(mapping) \o after

C29_PatchStep ==
    \A a \in TextsBefore, b \in TextsAfter, m \in Mappings :
        nbgrader_config = FileWith(a, m, b)
        => IF exc'["p1"] = ""
           THEN nbgrader_config' = FileWith(a, WithoutKey(m, course_id'["p1"]), b)
           ELSE nbgrader_config' = nbgrader_config

\* C29: the patch of the title mapping by a DELETE writes the file with the
\* same text before and after the mapping literal and with the mapping
\* without the key of the deleted course: every other entry is kept, and a
\* mapping without that key is unchanged; a patch that raises writes nothing.
C29_PatchRemovesOnlyTheKey == [][C29_PatchStep]_vars

\* C29 witness: a patch for c-1 has left the entry of c-2 between the texts
\* that were before and after the mapping.
C29_Witness ==
    /\ course_id["p1"] = "c-1"
    /\ exc["p1"] = ""
    /\ course_titles = {"c-2"}
    /\ nbgrader_config =
          FileWith(<<"c.A = ", "{", "}", "\n">>,
                   <<[key |-> "c-2", title |-> <<"{", "C">>]>>,
                   <<"\n", "c.B = ", "{", "}", "\n">>)

-----------------------------------------------------------------------------
(* Claims about the owner of copied assignments *)

C30_ChownStep ==
    \A p \in Procs :
        ( /\ op[p] = "copy_assignment"
          /\ pc[p] = "a_chown" /\ response'[p] = "200"
          /\ (trees \cap BelowSource) \ {"dst/tmp"} \subseteq owned )
        => (trees' \cap BelowSource) \subseteq owned'

\* C30: when every entry below the source directory of the destination
\* course belongs to the grader account of that course before an assignment
\* copy-in, then after a successful copy-in every entry below it, the copied
\* tree and the assignments that were there, belongs to that account.
C30_CopyKeepsDestinationOwner == [][C30_ChownStep]_vars

-----------------------------------------------------------------------------
(* Claims about the source of a copy-in *)

\* C31: an assignment copy-in that has ended, with success or with a failure
\* of any of its commands, has left no entry beside its source: the copy
\* <src>_<time> is not there.
C31_SourceTreeUnchanged ==
    \A p \in Procs :
        (op[p] = "copy_assignment" /\ pc[p] = "done") => "tmp" \notin trees

-----------------------------------------------------------------------------
(* Claims about the names of copy destinations *)

\* C32: two backups that both report success have each created an entry of
\* their own below /var/lib/private/<user>/: their destinations differ, for
\* any timing of the two requests, the same timestamp unit included.
C32_SuccessfulBackupsHaveSeparateEntries ==
    \A p, q \in Procs :
        /\ p # q
        /\ op[p] = "backup" /\ pc[p] = "done" /\ response[p] = "200"
        /\ op[q] = "backup" /\ pc[q] = "done" /\ response[q] = "200"
        => dst[p] # dst[q]

====
